---- MODULE Spec2Model ----
(***************************************************************************)
(* Issue-processing pipeline of CERM-Jira-LLM-Automation:                  *)
(*   - relevance classifier   (services/gatherer.py  ai_filter_comments)   *)
(*   - reference retriever    (services/gatherer.py  query_pinecone)       *)
(*   - output renderer        (utils/text.py         build_jira_comment)   *)
(*   - batch loop             (test_scripts/jira_ai_comment_filter.py)     *)
(*   - single-issue run       (main.py               main)                 *)
(*                                                                         *)
(* Conventions.  A Python string that is parsed as JSON is a sequence of   *)
(* lexical tokens; a Python string that is split into paragraphs is a      *)
(* sequence of one-character strings.  A relevance score is an integer     *)
(* number of hundredths (0.7 is 70).  Python's None is the JSON null.      *)
(***************************************************************************)
EXTENDS Integers, Sequences, FiniteSets, TLC

VARIABLES
    pc,                 \* position of the modelled call or run
    \* ---- classifier call: ai_filter_comments(client, issue, relevance_score)
    content,            \* completion.choices[0].message.content, tokenised
    comments,           \* issue.fields.comment.comments
    relevance_score,    \* keyword argument relevance_score
    selected,           \* first component of the returned pair
    scores,             \* second component of the returned pair
    raised,             \* TRUE iff the call ended by propagating an exception
    \* ---- renderer call: build_jira_comment(completion_content, references)
    completion_content, \* the generated text, one character per element
    references,         \* list[Reference]
    comment_text,       \* first component of the returned pair
    adf,                \* second component of the returned pair
    \* ---- retriever call: query_pinecone(query, top_k)
    embedding_ok,       \* FALSE iff embeddings.create raises
    index_ok,           \* FALSE iff idx.query raises
    matches,            \* results.matches, in the index's ranking order
    retrieved,          \* the returned list[Reference]
    retrieve_raised,    \* TRUE iff query_pinecone propagated an exception
    \* ---- batch loop of test_scripts/jira_ai_comment_filter.py
    batch,              \* the issues of matching_comments.keys(), in order
    cursor,             \* index of the issue the loop is at
    reports,            \* what process_issue logged, one entry per issue run
    \* ---- single-issue run main() of main.py (with comments, matches,
    \*      completion_content, comment_text and adf above)
    onlinehelp_comment, \* index of the comment found, 0 for None
    done_stages,        \* the stages of main() completed so far, in order
    post_calls,         \* the requests made to the tracker's comment endpoint
    \* ---- compaction call: _compact(text, limit) of gatherer.py or builder.py
    compact_which,      \* "gatherer" or "builder": whose _compact is called
    compact_text,       \* argument text, one character per element
    compact_limit,      \* argument limit
    compact_out,        \* the returned string
    \* ---- prompt compiler call: PromptBuilder.compile_messages()
    system_prompt,      \* self._system_prompt (None or a string)
    topic,              \* self.issue.fields.summary (None or a string)
    user_comments,      \* self._user_comments
    docs_references,    \* self._docs_references
    prompt,             \* the returned list of messages
    prompt_file,        \* content of prompts/issues/<key>/prompt.json
    \* ---- poster call: post_adf(issue, adf, reply_comment=...)
    reply_comment,      \* keyword argument reply_comment (None or a comment)
    post_answer,        \* what the HTTP session does with the request
    post_log,           \* the records post_adf logged
    post_raised,        \* TRUE iff post_adf propagated an exception
    target_pattern,     \* argument pattern of get_target_comment(comments, pattern)
    \* ---- external requests issued by the modelled gatherer call, in order
    requests

filterVars == <<content, comments, relevance_score, selected, scores, raised>>
renderVars == <<completion_content, references, comment_text, adf>>
retrieveVars == <<embedding_ok, index_ok, matches, retrieved, retrieve_raised>>
batchVars == <<batch, cursor, reports>>
mainVars == <<onlinehelp_comment, done_stages, post_calls>>
compactVars == <<compact_which, compact_text, compact_limit, compact_out>>
promptVars == <<system_prompt, topic, user_comments, docs_references, prompt,
               prompt_file>>
postVars == <<reply_comment, post_answer, post_log, post_raised, target_pattern>>
vars == <<pc, filterVars, renderVars, retrieveVars, batchVars, mainVars,
          compactVars, promptVars, postVars, requests>>

(***************************************************************************)
(* Bounds of the model.                                                    *)
(***************************************************************************)
MaxEntries == 2         \* entries in the "scores" object of a response
MaxTextLen == 4         \* characters of a completion text
MaxRefs == 3            \* references handed to the renderer
MaxMatches == 3         \* matches returned by the vector index
MaxIssues == 3          \* issues of a batch
MaxComments == 2        \* comments of the issue main() fetches

(***************************************************************************)
(* Small helpers.                                                          *)
(***************************************************************************)
EmptyMap == [k \in {} |-> 0]

Min(S) == CHOOSE a \in S : \A b \in S : a <= b
Max(S) == CHOOSE a \in S : \A b \in S : a >= b

SeqsUpTo(S, n) == UNION {[1..k -> S] : k \in 0..n}

(***************************************************************************)
(* JSON text as tokens, JSON values as tagged records.                     *)
(***************************************************************************)
Tok(k, s, n) == [k |-> k, s |-> s, n |-> n]
LB      == Tok("{", "", 0)
RB      == Tok("}", "", 0)
COLON   == Tok(":", "", 0)
COMMA   == Tok(",", "", 0)
NULL    == Tok("null", "", 0)
WS      == Tok("ws", " ", 0)             \* a run of white space
JUNK    == Tok("junk", "Sure", 0)        \* a bare word: not JSON, holds no brace
StrTok(s) == Tok("str", s, 0)            \* a string literal "s"
NumTok(n) == Tok("num", "", n)           \* a number literal, in hundredths

JNull     == [t |-> "null", n |-> 0, s |-> "", m |-> EmptyMap]
JNum(n)   == [t |-> "num", n |-> n, s |-> "", m |-> EmptyMap]
JStr(s)   == [t |-> "str", n |-> 0, s |-> s, m |-> EmptyMap]
JObj(m)   == [t |-> "obj", n |-> 0, s |-> "", m |-> m]

PyNone == JNull

\* Python truthiness of a decoded JSON value (the `or` of gatherer.py:170).
Truthy(v) ==
    CASE v.t = "obj" -> DOMAIN v.m # {}
      [] v.t = "num" -> v.n # 0
      [] v.t = "str" -> v.s # ""
      [] OTHER       -> FALSE

\* dict item assignment: a repeated key keeps the last value.
DictSet(m, key, val) ==
    [k \in DOMAIN m \cup {key} |-> IF k = key THEN val ELSE m[k]]

ParseFail == [ok |-> FALSE, val |-> JNull, next |-> 0]

RECURSIVE ParseValue(_, _), ParseMembers(_, _, _, _)

\* json decoder, one value starting at token i of t (white space removed).
ParseValue(t, i) ==
    IF i > Len(t) THEN ParseFail
    ELSE CASE t[i].k = "num"  -> [ok |-> TRUE, val |-> JNum(t[i].n), next |-> i + 1]
           [] t[i].k = "str"  -> [ok |-> TRUE, val |-> JStr(t[i].s), next |-> i + 1]
           [] t[i].k = "null" -> [ok |-> TRUE, val |-> JNull, next |-> i + 1]
           [] t[i].k = "{"    -> ParseMembers(t, i + 1, EmptyMap, TRUE)
           [] OTHER           -> ParseFail

\* members of an object; `first` is TRUE right after the opening brace.
ParseMembers(t, i, acc, first) ==
    IF i > Len(t) THEN ParseFail
    ELSE IF t[i].k = "}" THEN
        IF first THEN [ok |-> TRUE, val |-> JObj(acc), next |-> i + 1]
        ELSE ParseFail
    ELSE IF i + 2 > Len(t) \/ t[i].k # "str" \/ t[i + 1].k # ":" THEN ParseFail
    ELSE LET r == ParseValue(t, i + 2) IN
        IF ~r.ok \/ r.next > Len(t) THEN ParseFail
        ELSE LET acc2 == DictSet(acc, t[i].s, r.val) IN
            CASE t[r.next].k = "}" ->
                    [ok |-> TRUE, val |-> JObj(acc2), next |-> r.next + 1]
              [] t[r.next].k = "," -> ParseMembers(t, r.next + 1, acc2, FALSE)
              [] OTHER -> ParseFail

\* json.loads(s): the whole text must be one value.
json_loads(s) ==
    LET t == SelectSeq(s, LAMBDA x : x.k # "ws")
        r == ParseValue(t, 1)
    IN IF r.ok /\ r.next = Len(t) + 1
       THEN [ok |-> TRUE, val |-> r.val]
       ELSE [ok |-> FALSE, val |-> JNull]

\* str.strip(): leading and trailing white space removed.
RECURSIVE lstrip(_), rstrip(_)
lstrip(s) == IF s # <<>> /\ Head(s).k = "ws" THEN lstrip(Tail(s)) ELSE s
rstrip(s) == IF s # <<>> /\ s[Len(s)].k = "ws"
             THEN rstrip(SubSeq(s, 1, Len(s) - 1)) ELSE s
strip(s) == rstrip(lstrip(s))

\* re.search(r"\{[\s\S]*\}", s): leftmost "{", then greedily up to the last "}".
re_search_braces(s) ==
    LET lbs == {i \in 1..Len(s) : s[i].k = "{"} IN
    IF lbs = {} THEN [found |-> FALSE, group |-> <<>>]
    ELSE LET i   == Min(lbs)
             rbs == {j \in i..Len(s) : s[j].k = "}"}
         IN IF rbs = {} THEN [found |-> FALSE, group |-> <<>>]
            ELSE [found |-> TRUE, group |-> SubSeq(s, i, Max(rbs))]

\* _extract_json with the second json.loads outside any try block: the
\* decoder's error leaves the function.
_extract_json_unguarded(s0) ==
    LET s == strip(s0)
        direct == json_loads(s)
    IN IF direct.ok THEN [val |-> direct.val, raised |-> FALSE]
       ELSE LET m == re_search_braces(s) IN
            IF m.found
            THEN LET block == json_loads(m.group) IN
                 IF block.ok THEN [val |-> block.val, raised |-> FALSE]
                 ELSE [val |-> PyNone, raised |-> TRUE]
            ELSE [val |-> PyNone, raised |-> FALSE]

\* IssueGatherer._extract_json: [val, raised]; both decoder calls sit in a
\* try block whose handler catches Exception, so raised is always FALSE.
_extract_json(s0) ==
    LET s == strip(s0)
        direct == json_loads(s)
    IN IF direct.ok THEN [val |-> direct.val, raised |-> FALSE]
       ELSE LET m == re_search_braces(s) IN
            IF m.found
            THEN LET block == json_loads(m.group) IN
                 IF block.ok THEN [val |-> block.val, raised |-> FALSE]
                 ELSE [val |-> PyNone, raised |-> FALSE]
            ELSE [val |-> PyNone, raised |-> FALSE]

(***************************************************************************)
(* _RelevantSelectionModel and ai_filter_comments.                         *)
(***************************************************************************)
ScoreMin == 0           \* Field(ge=0)
ScoreMax == 100         \* Field(le=1), in hundredths
DefaultRelevance == 50  \* relevance_score: Percent = 0.5

\* Lax-mode float coercion of a JSON value by pydantic: numbers, and strings
\* that spell a number; [ok, f].
FloatOf(v) ==
    CASE v.t = "num" -> [ok |-> TRUE, f |-> v.n]
      [] v.t = "str" /\ v.s = "0.7" -> [ok |-> TRUE, f |-> 70]
      [] OTHER -> [ok |-> FALSE, f |-> 0]

\* One entry of scores: dict[str, _Score] passes iff it is a float in [0, 1].
ScoreOk(v) ==
    FloatOf(v).ok /\ ScoreMin <= FloatOf(v).f /\ FloatOf(v).f <= ScoreMax

\* The model without extra="forbid": fields other than scores are ignored.
model_validate_ignore_extra(raw) ==
    IF raw.t # "obj" THEN [ok |-> FALSE, scores |-> EmptyMap]
    ELSE IF "scores" \notin DOMAIN raw.m
    THEN [ok |-> TRUE, scores |-> EmptyMap]
    ELSE LET sc == raw.m["scores"] IN
        IF sc.t # "obj" THEN [ok |-> FALSE, scores |-> EmptyMap]
        ELSE IF \A k \in DOMAIN sc.m : ScoreOk(sc.m[k])
        THEN [ok |-> TRUE, scores |-> [k \in DOMAIN sc.m |-> FloatOf(sc.m[k]).f]]
        ELSE [ok |-> FALSE, scores |-> EmptyMap]

\* _RelevantSelectionModel.model_validate(raw): [ok, scores]; ok = FALSE is a
\* ValidationError.  The field is validated entry by entry and one failing
\* entry fails the model; _validate_scores is wrapped in classmethod above
\* field_validator, so pydantic never registers it, and in mode "after" it
\* could only run once every entry has passed.
model_validate(raw) ==
    IF raw.t # "obj" THEN [ok |-> FALSE, scores |-> EmptyMap]
    ELSE IF ~(DOMAIN raw.m \subseteq {"scores"})           \* extra="forbid"
    THEN [ok |-> FALSE, scores |-> EmptyMap]
    ELSE IF "scores" \notin DOMAIN raw.m                    \* default_factory=dict
    THEN [ok |-> TRUE, scores |-> EmptyMap]
    ELSE LET sc == raw.m["scores"] IN
        IF sc.t # "obj" THEN [ok |-> FALSE, scores |-> EmptyMap]
        ELSE IF \A k \in DOMAIN sc.m : ScoreOk(sc.m[k])
        THEN [ok |-> TRUE, scores |-> [k \in DOMAIN sc.m |-> FloatOf(sc.m[k]).f]]
        ELSE [ok |-> FALSE, scores |-> EmptyMap]

\* raw of gatherer.py:170: the decoded value, or {"scores": {}} when falsy.
RawOf(got) == IF Truthy(got) THEN got ELSE JObj("scores" :> JObj(EmptyMap))

\* parsed.scores after the try/except of gatherer.py:171-175.
ParsedScores(raw) ==
    LET v == model_validate(raw) IN IF v.ok THEN v.scores ELSE EmptyMap

\* id_set with a strict comparison.
IdSetStrict(sc, threshold) == {i \in DOMAIN sc : sc[i] > threshold}

\* id_set of gatherer.py:177-179.
IdSet(sc, threshold) == {i \in DOMAIN sc : sc[i] >= threshold}

\* IssueGatherer.ai_filter_comments / Controller.ai_filter_comments, from the
\* response text on: [selected, scores, raised].
ai_filter_comments(text, cs, threshold) ==
    LET ex == _extract_json(text) IN
    IF ex.raised
    THEN [selected |-> <<>>, scores |-> EmptyMap, raised |-> TRUE]
    ELSE LET parsed == ParsedScores(RawOf(ex.val))
             id_set == IdSet(parsed, threshold)
         IN [selected |-> SelectSeq(cs, LAMBDA c : c.id \in id_set),
             scores   |-> parsed,
             raised   |-> FALSE]

\* The variables of main() in a run that is not main().
MainIdle ==
    /\ onlinehelp_comment = 0
    /\ done_stages = <<>>
    /\ post_calls = <<>>

\* The classifier variables of a run that makes no classifier call.
FilterIdle ==
    /\ content = <<>>
    /\ comments = <<>>
    /\ relevance_score = DefaultRelevance
    /\ selected = <<>>
    /\ scores = EmptyMap
    /\ raised = FALSE

(***************************************************************************)
(* Python string operations on texts (sequences of characters and of       *)
(* opaque pieces such as a title or a link target).                        *)
(***************************************************************************)
WhiteSpace == {" ", "\n", "\r", "\t"}

RECURSIVE str_lstrip(_), str_rstrip(_)
str_lstrip(s) == IF s # <<>> /\ Head(s) \in WhiteSpace THEN str_lstrip(Tail(s)) ELSE s
str_rstrip(s) == IF s # <<>> /\ s[Len(s)] \in WhiteSpace
                 THEN str_rstrip(SubSeq(s, 1, Len(s) - 1)) ELSE s
\* s.strip()
str_strip(s) == str_rstrip(str_lstrip(s))

\* s.replace(ch, "")
str_remove(s, ch) == SelectSeq(s, LAMBDA x : x # ch)

RECURSIVE split_blank(_)
\* s.split("\n\n"): cut at the separators found left to right, not overlapping.
split_blank(s) ==
    LET at == {i \in 1..(Len(s) - 1) : s[i] = "\n" /\ s[i + 1] = "\n"} IN
    IF at = {} THEN <<s>>
    ELSE <<SubSeq(s, 1, Min(at) - 1)>>
         \o split_blank(SubSeq(s, Min(at) + 2, Len(s)))

RECURSIVE split_lines(_)
\* s.split("\n")
split_lines(s) ==
    LET at == {i \in 1..Len(s) : s[i] = "\n"} IN
    IF at = {} THEN <<s>>
    ELSE <<SubSeq(s, 1, Min(at) - 1)>>
         \o split_lines(SubSeq(s, Min(at) + 1, Len(s)))

RECURSIVE join_lines(_)
\* "\n".join(lines)
join_lines(lines) ==
    IF lines = <<>> THEN <<>>
    ELSE IF Len(lines) = 1 THEN lines[1]
    ELSE lines[1] \o <<"\n">> \o join_lines(Tail(lines))

RECURSIVE Flatten(_)
Flatten(ss) == IF ss = <<>> THEN <<>> ELSE Head(ss) \o Flatten(Tail(ss))

(***************************************************************************)
(* build_jira_comment (utils/text.py).                                     *)
(***************************************************************************)
Reference(title, text, source) == [title |-> title, text |-> text, source |-> source]

RECURSIVE DedupKeepAll(_, _, _)
\* The loop without the seen-set test: every reference becomes a row.
DedupKeepAll(refs, seen, today) ==
    IF refs = <<>> THEN <<>>
    ELSE <<<<Head(refs).title, Head(refs).source, today>>>>
         \o DedupKeepAll(Tail(refs), seen, today)

RECURSIVE DedupLoop(_, _, _)
\* text.py:30-36: refs_list, given the set `seen` of sources met so far.
DedupLoop(refs, seen, today) ==
    IF refs = <<>> THEN <<>>
    ELSE IF Head(refs).source \in seen
    THEN DedupLoop(Tail(refs), seen, today)
    ELSE <<<<Head(refs).title, Head(refs).source, today>>>>
         \o DedupLoop(Tail(refs), seen \cup {Head(refs).source}, today)

\* text.py:27-36
RefsList(refs, today) == DedupLoop(refs, {}, today)

\* text.py:40 and text.py:125-129: the stripped, non-empty pieces.
Paragraphs(text) ==
    LET pieces == split_blank(text)
        kept == SelectSeq(pieces, LAMBDA p : str_strip(p) # <<>>)
    IN [i \in 1..Len(kept) |-> str_strip(kept[i])]

PlainHeader == "||References||Date accessed||"

\* text.py:42-55: comment_text.
PlainText(paragraphs, refs_list) ==
    LET para_lines == Flatten([i \in 1..Len(paragraphs) |->
                         <<str_remove(paragraphs[i], "\r"), <<>>>>])
        row_lines == [i \in 1..Len(refs_list) |->
                         <<"|", "[", refs_list[i][1], "|", refs_list[i][2], "]",
                           "|", refs_list[i][3], "|">>]
        table_lines == IF refs_list # <<>>
                       THEN <<<<PlainHeader>>>> \o row_lines \o <<<<>>>>
                       ELSE <<>>
    IN str_strip(join_lines(para_lines \o table_lines))

TextNode(txt) == [type |-> "text", text |-> txt]
LinkNode(txt, href) ==
    [type |-> "text", text |-> txt,
     marks |-> <<[type |-> "link", attrs |-> [href |-> href]]>>]
ParagraphNode(inner) == [type |-> "paragraph", content |-> <<inner>>]
HeaderCell(h) ==
    [type |-> "tableHeader", attrs |-> EmptyMap,
     content |-> <<ParagraphNode(TextNode(<<h>>))>>]
TableCell(inner) ==
    [type |-> "tableCell", attrs |-> EmptyMap, content |-> <<ParagraphNode(inner)>>]
TableRow(cells) == [type |-> "tableRow", content |-> cells]

AdfHeaders == <<"Reference", "Date accessed">>

\* text.py:80-121: header row, then one row per entry of refs_list.
AdfRows(refs_list) ==
    <<TableRow([i \in 1..Len(AdfHeaders) |-> HeaderCell(AdfHeaders[i])])>>
    \o [i \in 1..Len(refs_list) |->
          TableRow(<<TableCell(LinkNode(<<refs_list[i][1]>>, refs_list[i][2])),
                     TableCell(TextNode(<<refs_list[i][3]>>))>>)]

\* The document with the expand node appended outside the `if refs_list:`
\* block, whatever the list holds.
AdfDocAlwaysTable(text, refs_list) ==
    LET ps == Paragraphs(text)
        adf_paragraphs == [i \in 1..Len(ps) |-> ParagraphNode(TextNode(ps[i]))]
        table_node == [type |-> "table",
                       attrs |-> [isNumberColumnEnabled |-> FALSE, layout |-> "default"],
                       content |-> AdfRows(refs_list)]
        expand_node == [type |-> "expand", attrs |-> [title |-> "References"],
                        content |-> <<table_node>>]
    IN [type |-> "doc", version |-> 1,
        content |-> (IF refs_list # <<>> THEN adf_paragraphs ELSE <<>>)
                    \o <<expand_node>>]

\* text.py:58-146: the document; its content is filled only inside the
\* `if refs_list:` block, paragraph nodes included.
AdfDoc(text, refs_list) ==
    LET ps == Paragraphs(text)
        adf_paragraphs == [i \in 1..Len(ps) |-> ParagraphNode(TextNode(ps[i]))]
        table_node == [type |-> "table",
                       attrs |-> [isNumberColumnEnabled |-> FALSE, layout |-> "default"],
                       content |-> AdfRows(refs_list)]
        expand_node == [type |-> "expand", attrs |-> [title |-> "References"],
                        content |-> <<table_node>>]
    IN [type |-> "doc", version |-> 1,
        content |-> IF refs_list # <<>>
                    THEN adf_paragraphs \o <<expand_node>>
                    ELSE <<>>]

\* build_jira_comment with the document's table built from the argument
\* list instead of refs_list.
build_jira_comment_two_lists(text, refs, today) ==
    [comment_text |-> PlainText(Paragraphs(text), RefsList(refs, today)),
     adf |-> AdfDoc(text, DedupKeepAll(refs, {}, today))]

\* build_jira_comment(completion_content, references) with the date of the
\* call: [comment_text, adf].
build_jira_comment(text, refs, today) ==
    LET refs_list == RefsList(refs, today) IN
    [comment_text |-> PlainText(Paragraphs(text), refs_list),
     adf |-> AdfDoc(text, refs_list)]

(***************************************************************************)
(* query_pinecone (services/gatherer.py, services/controller.py).          *)
(***************************************************************************)
MetadataFields == {"title", "text", "source"}

\* A match is [metadata |-> m], m a dict; its place in the list is its rank.
Match(m) == [metadata |-> m]

\* doc["metadata"]["title"], ["text"], ["source"] all exist.
HasAllFields(doc) == MetadataFields \subseteq DOMAIN doc.metadata

\* gatherer.py:216-223: one Reference per match, in the order of the matches.
ReferencesOf(ms) ==
    [i \in 1..Len(ms) |->
        Reference(ms[i].metadata.title, ms[i].metadata.text, ms[i].metadata.source)]

\* query_pinecone with a comprehension that passes over a match lacking a
\* metadata field.
query_pinecone_skip_incomplete(emb_ok, idx_ok, ms) ==
    IF ~emb_ok \/ ~idx_ok THEN [refs |-> <<>>, raised |-> TRUE]
    ELSE [refs |-> ReferencesOf(SelectSeq(ms, HasAllFields)), raised |-> FALSE]

\* IssueGatherer.query_pinecone, given what the two collaborators answer:
\* [refs, raised].  A failing call and a missing metadata key both raise.
query_pinecone(emb_ok, idx_ok, ms) ==
    IF ~emb_ok \/ ~idx_ok THEN [refs |-> <<>>, raised |-> TRUE]
    ELSE IF \E i \in 1..Len(ms) : ~HasAllFields(ms[i])
    THEN [refs |-> <<>>, raised |-> TRUE]
    ELSE [refs |-> ReferencesOf(ms), raised |-> FALSE]

MatchUniverse ==
    { Match([title |-> "A", text |-> "t", source |-> "http://x/1"]),
      Match([title |-> "B", text |-> "t", source |-> "http://x/1"]),
      Match([title |-> "C", text |-> "t", source |-> "http://x/2"]),
      Match([title |-> "D", text |-> "t"]),
      Match([title |-> "E", source |-> "http://x/3"]),
      Match([text |-> "t", source |-> "http://x/3"]) }

RetrieveIdle ==
    /\ embedding_ok = TRUE
    /\ index_ok = TRUE
    /\ matches = <<>>
    /\ retrieved = <<>>
    /\ retrieve_raised = FALSE

(***************************************************************************)
(* The batch loop (test_scripts/jira_ai_comment_filter.py).                *)
(***************************************************************************)
Comment(id, body) == [id |-> id, body |-> body]

\* An issue of the batch, with what the triage model answers for it:
\* reply.ok = FALSE is chat.completions.create raising.
BatchIssue(cs, ok, text) == [comments |-> cs, reply |-> [ok |-> ok, content |-> text]]

\* process_issue, for an issue whose completion call returns: what it logs.
process_issue(issue) ==
    LET r == ai_filter_comments(issue.reply.content, issue.comments, DefaultRelevance) IN
    IF r.selected = <<>> THEN [selected |-> <<>>, note |-> "none selected"]
    ELSE [selected |-> [i \in 1..Len(r.selected) |-> r.selected[i].id],
          note |-> "report"]

BatchIdle ==
    /\ batch = <<>>
    /\ cursor = 1
    /\ reports = <<>>

(***************************************************************************)
(* Text compaction: IssueGatherer._compact (gatherer.py) and the _compact  *)
(* nested in PromptBuilder.compile_messages (builder.py).                  *)
(***************************************************************************)
GathererHeadCut == 200      \* text[: limit - 200]
GathererTail == 180         \* text[-180:]
BuilderHeadCut == 220       \* text[: limit - 220]
BuilderTail == 200          \* text[-200:]
CommentLimit == 1500        \* _compact(str(uc.get("content", "")), 1500)
ReferenceLimit == 1800      \* _compact(ref.text.replace(...), 1800)

\* The character U+2026 (horizontal ellipsis), one element of a text.
Ellipsis == "U+2026"

\* The three characters the f-string puts between head and tail.
TruncationMarker == <<"\n", Ellipsis, "\n">>

\* s[:k] of Python: a negative k counts from the end.
PySliceTo(s, k) ==
    LET e == IF k >= 0
             THEN (IF k < Len(s) THEN k ELSE Len(s))
             ELSE (IF Len(s) + k > 0 THEN Len(s) + k ELSE 0)
    IN SubSeq(s, 1, e)

\* s[-t:] of Python for t > 0: the last t characters, all of s if shorter.
PySliceLast(s, t) ==
    SubSeq(s, (IF Len(s) - t > 0 THEN Len(s) - t ELSE 0) + 1, Len(s))

\* The body shared by the two functions: carriage returns removed, then
\* stripped, then cut to head, marker and tail if longer than limit.
CompactWith(text, limit, head_cut, tail_len) ==
    LET t == str_strip(str_remove(text, "\r")) IN
    IF Len(t) <= limit THEN t
    ELSE PySliceTo(t, limit - head_cut) \o TruncationMarker
         \o PySliceLast(t, tail_len)

\* IssueGatherer._compact(text, limit)
_compact(text, limit) == CompactWith(text, limit, GathererHeadCut, GathererTail)

\* The compaction with a line break after the tail of a cut text.
compile_messages_compact_newline(text, limit) ==
    LET t == str_strip(str_remove(text, "\r")) IN
    IF Len(t) <= limit THEN t
    ELSE PySliceTo(t, limit - BuilderHeadCut) \o TruncationMarker
         \o PySliceLast(t, BuilderTail) \o <<"\n">>

\* _compact(text, limit) of compile_messages
compile_messages_compact(text, limit) ==
    CompactWith(text, limit, BuilderHeadCut, BuilderTail)

CompactIdle ==
    /\ compact_which = "gatherer"
    /\ compact_text = <<>>
    /\ compact_limit = 0
    /\ compact_out = <<>>

(***************************************************************************)
(* PromptBuilder.compile_messages (services/builder.py).                   *)
(***************************************************************************)
\* A value of type `str | None`.
NoneStr == [none |-> TRUE, s |-> <<>>]
PyStr(s) == [none |-> FALSE, s |-> s]

\* `x or ""`
OrEmpty(x) == IF x.none THEN <<>> ELSE x.s

\* `if x:` for a `str | None`
StrTruthy(x) == ~x.none /\ x.s # <<>>

UserComment(author, text) == [author |-> author, content |-> text]

StandingInstruction ==
    "Use only the material below to produce the deliverables described in the system prompt.If information is missing, list clarifying questions."
TopicHeader == "# Topic"
CommentsHeader == "## Curated developer comments (from Jira)"
ReferencesHeader == "## Reference documents (retrieved)"
ClosingInstruction ==
    "End of input. Follow the Output Structure from the system prompt. Do not invent details."
EmDash == " U+2014 "        \* space, the character U+2014, space

RECURSIVE join_blank(_)
\* "\n\n".join(parts)
join_blank(parts) ==
    IF parts = <<>> THEN <<>>
    ELSE IF Len(parts) = 1 THEN parts[1]
    ELSE parts[1] \o <<"\n", "\n">> \o join_blank(Tail(parts))

RECURSIVE demote_headings(_)
\* text.replace("\n#", "\n##"): occurrences found left to right.
demote_headings(s) ==
    IF Len(s) < 2 THEN s
    ELSE IF s[1] = "\n" /\ s[2] = "#"
    THEN <<"\n", "#", "#">> \o demote_headings(SubSeq(s, 3, Len(s)))
    ELSE <<Head(s)>> \o demote_headings(Tail(s))

\* The comment subsection with the author written as given and the
\* numbering starting at zero.
CommentBlockUntrimmed(i, uc) ==
    <<"### Comment ", ToString(i - 1), EmDash>> \o uc.author \o <<"\n">>
    \o compile_messages_compact(uc.content, CommentLimit)

\* builder.py:95, the subsection of comment i.
CommentBlock(i, uc) ==
    <<"### Comment ", ToString(i), EmDash>> \o str_strip(uc.author) \o <<"\n">>
    \o compile_messages_compact(uc.content, CommentLimit)

\* builder.py:102-105, the subsection of reference i.
ReferenceBlock(i, ref) ==
    <<"### Reference ", ToString(i), ": ", ref.title, "\n">>
    \o compile_messages_compact(demote_headings(ref.text), ReferenceLimit)
    \o <<"\n", "\n", "Source: ", ref.source>>

\* compile_messages with every optional section always appended.
PromptPartsAllSections(tp, ucs, refs) ==
    <<<<StandingInstruction>>>>
    \o <<<<TopicHeader, "\n">> \o OrEmpty(tp)>>
    \o <<join_blank(<<<<CommentsHeader>>>>
             \o [i \in 1..Len(ucs) |-> CommentBlock(i, ucs[i])])>>
    \o <<join_blank(<<<<ReferencesHeader>>>>
             \o [i \in 1..Len(refs) |-> ReferenceBlock(i, refs[i])])>>
    \o <<<<ClosingInstruction>>>>

\* builder.py:77-110: parts.
PromptParts(tp, ucs, refs) ==
    <<<<StandingInstruction>>>>
    \o (IF StrTruthy(tp) THEN <<<<TopicHeader, "\n">> \o tp.s>> ELSE <<>>)
    \o (IF ucs # <<>>
        THEN <<join_blank(<<<<CommentsHeader>>>>
                   \o [i \in 1..Len(ucs) |-> CommentBlock(i, ucs[i])])>>
        ELSE <<>>)
    \o (IF refs # <<>>
        THEN <<join_blank(<<<<ReferencesHeader>>>>
                   \o [i \in 1..Len(refs) |-> ReferenceBlock(i, refs[i])])>>
        ELSE <<>>)
    \o <<<<ClosingInstruction>>>>

\* builder.py:112-123 with the reference section put before the comments.
compile_messages_refs_first(sp, tp, ucs, refs) ==
    LET ps == PromptParts(tp, ucs, refs)
        n == Len(ps)
        swapped == IF ucs # <<>> /\ refs # <<>>
                   THEN [i \in 1..n |-> IF i = n - 2 THEN ps[n - 1]
                                        ELSE IF i = n - 1 THEN ps[n - 2]
                                        ELSE ps[i]]
                   ELSE ps
    IN << [role |-> "system", content |-> OrEmpty(sp)],
          [role |-> "user", content |-> join_blank(swapped)] >>

\* PromptBuilder.compile_messages: the returned list.
compile_messages(sp, tp, ucs, refs) ==
    << [role |-> "system", content |-> OrEmpty(sp)],
       [role |-> "user", content |-> join_blank(PromptParts(tp, ucs, refs))] >>

\* builder.py:41-43, the setter of system_prompt: self._system_prompt = value.strip()
system_prompt_setter(value) == PyStr(str_strip(value))

\* builder.py:45-47, the deleter of system_prompt: self._system_prompt = None
system_prompt_deleter == NoneStr

\* What a statement does with an attribute of the builder: it reads it
\* (through its property), or it stores a value in it.
ReadOf(attr) == [attr |-> attr, op |-> "read", value |-> NoneStr]
StoreIn(attr, value) == [attr |-> attr, op |-> "store", value |-> value]

\* The builder after one such statement: a read leaves it as it is.
AccessEffect(b, a) ==
    IF a.op = "store" THEN [b EXCEPT ![a.attr] = a.value] ELSE b

RECURSIVE AfterAccesses(_, _)
\* The builder after the statements of accs, in order.
AfterAccesses(b, accs) ==
    IF accs = <<>> THEN b
    ELSE AfterAccesses(AccessEffect(b, Head(accs)), Tail(accs))

\* compile_messages with a system_prompt property that keeps what it
\* returns: self._system_prompt = self._system_prompt or "".
compile_messages_accesses_caching(b) ==
    <<ReadOf("topic")>>
    \o (IF StrTruthy(b.topic) THEN <<ReadOf("topic")>> ELSE <<>>)
    \o <<ReadOf("user_comments")>>
    \o (IF b.user_comments # <<>> THEN <<ReadOf("user_comments")>> ELSE <<>>)
    \o <<ReadOf("docs_references")>>
    \o (IF b.docs_references # <<>> THEN <<ReadOf("docs_references")>> ELSE <<>>)
    \o <<StoreIn("system_prompt", PyStr(OrEmpty(b.system_prompt))),
         ReadOf("system_prompt")>>

\* What compile_messages does with the builder's attributes, statement by
\* statement: `if self.topic:` and the f-string of builder.py:87-88,
\* `if self.user_comments:` and the enumerate of 90-92, `if
\* self.docs_references:` and the enumerate of 98-100, self.system_prompt of
\* 115 (the property of 37-39, which returns `self._system_prompt or ""` and
\* stores nothing).  Everything else in the body works on the locals
\* parts, lines and prompt.
compile_messages_accesses(b) ==
    <<ReadOf("topic")>>
    \o (IF StrTruthy(b.topic) THEN <<ReadOf("topic")>> ELSE <<>>)
    \o <<ReadOf("user_comments")>>
    \o (IF b.user_comments # <<>> THEN <<ReadOf("user_comments")>> ELSE <<>>)
    \o <<ReadOf("docs_references")>>
    \o (IF b.docs_references # <<>> THEN <<ReadOf("docs_references")>> ELSE <<>>)
    \o <<ReadOf("system_prompt")>>

\* The builder after compile_messages.
compile_messages_builder(sp, tp, ucs, refs) ==
    LET b == [system_prompt |-> sp, topic |-> tp, user_comments |-> ucs,
              docs_references |-> refs]
    IN AfterAccesses(b, compile_messages_accesses(b))

\* builder.py:125-132: what json.dumps(prompt) leaves in prompt.json.
PromptFile(msgs) == [encoding |-> "json", value |-> msgs]
NoFile == [encoding |-> "none", value |-> <<>>]

\* prompt.json after a compile_messages that raised in builder.py:125-132:
\* os.makedirs or open raised and the file is as it was, or the write
\* raised after open(..., "w") created or truncated the file, which is left
\* with no byte or with the first bytes of the text only; neither is JSON.
FailedSaveFiles(before) ==
    {before, [encoding |-> "empty", value |-> <<>>],
     [encoding |-> "cut short", value |-> <<>>]}

PromptIdle ==
    /\ system_prompt = NoneStr
    /\ topic = NoneStr
    /\ user_comments = <<>>
    /\ docs_references = <<>>
    /\ prompt = <<>>
    /\ prompt_file = NoFile

(***************************************************************************)
(* post_adf (services/gatherer.py, services/controller.py) and the         *)
(* external requests of the gatherer's calls.                              *)
(***************************************************************************)
\* A value of type `Comment | None`.
NoComment == [none |-> TRUE, id |-> ""]
ReplyTo(id) == [none |-> FALSE, id |-> id]

(***************************************************************************)
(* get_target_comment: the comment a reply is attached to.                 *)
(***************************************************************************)
\* A compiled pattern of the form ^h[1-6]\.\s*(p1|p2|...)\b, or (p1|...)\b
\* without the heading part, with or without re.IGNORECASE.
Pattern(heading, phrases, ignorecase) ==
    [heading |-> heading, phrases |-> phrases, ignorecase |-> ignorecase]

\* The pattern of a run that searches no target: it matches nothing.
NoPattern == Pattern(FALSE, {}, FALSE)

\* str.lower() on the letters of the modelled alphabet.
char_lower(ch) ==
    CASE ch = "H" -> "h"
      [] ch = "D" -> "d"
      [] ch = "O" -> "o"
      [] ch = "C" -> "c"
      [] OTHER -> ch

str_lower(s) == [i \in 1..Len(s) |-> char_lower(s[i])]

\* \w of the regular expression, on the modelled alphabet.
IsWordChar(ch) == ch \notin WhiteSpace \cup {".", "&", "!", ":"}

\* gatherer.py:189-190: first = " ".join(str(body).strip().splitlines()[:1]).lower()
first_line(body) ==
    LET t == str_strip(body)
        breaks == {i \in 1..Len(t) : t[i] \in {"\n", "\r"}}
    IN str_lower(IF breaks = {} THEN t ELSE SubSeq(t, 1, Min(breaks) - 1))

\* The phrase ph, then \b, matches s from place i on.
PhraseMatchesAt(ph, ignorecase, s, i) ==
    /\ i + Len(ph) - 1 <= Len(s)
    /\ \A k \in 1..Len(ph) :
          \/ s[i + k - 1] = ph[k]
          \/ ignorecase /\ char_lower(s[i + k - 1]) = char_lower(ph[k])
    /\ ph # <<>>
    /\ IsWordChar(s[i + Len(ph) - 1])
          # (i + Len(ph) <= Len(s) /\ IsWordChar(s[i + Len(ph)]))

\* pattern.match(s): the pattern matches at the start of s.
pattern_match(pattern, s) ==
    LET starts ==
            IF pattern.heading
            THEN IF /\ Len(s) >= 3
                    /\ s[1] = "h" \/ (pattern.ignorecase /\ s[1] = "H")
                    /\ s[2] \in {"1", "2", "3", "4", "5", "6"}
                    /\ s[3] = "."
                 THEN {i \in 4..(Len(s) + 1) :
                          \A k \in 4..(i - 1) : s[k] \in WhiteSpace}
                 ELSE {}
            ELSE {1}
    IN \E i \in starts : \E ph \in pattern.phrases :
          PhraseMatchesAt(ph, pattern.ignorecase, s, i)

\* The loop returning the last matching comment.
get_target_comment_last(cs, pattern) ==
    LET hits == {i \in 1..Len(cs) : pattern_match(pattern, first_line(cs[i].body))}
    IN [found |-> IF hits = {} THEN NoComment ELSE ReplyTo(cs[Max(hits)].id),
        raised |-> FALSE]

\* IssueGatherer.get_target_comment / Controller.get_target_comment: the
\* returned comment (None when the loop runs out), and whether it raised.
get_target_comment(cs, pattern) ==
    LET hits == {i \in 1..Len(cs) : pattern_match(pattern, first_line(cs[i].body))}
    IN [found |-> IF hits = {} THEN NoComment ELSE ReplyTo(cs[Min(hits)].id),
        raised |-> FALSE]

\* What self.jira._session.post does: it raises (no response), or it returns
\* a response with a status code.
NoResponse == [raises |-> TRUE, status_code |-> 0]
HttpResponse(code) == [raises |-> FALSE, status_code |-> code]

\* resp.raise_for_status() raises HTTPError for a 4xx or 5xx status.
RaisesForStatus(code) == 400 <= code /\ code < 600

Request(kind, payload) == [kind |-> kind, payload |-> payload]

\* The body with parentId written whether or not a reply target is given.
PostBodyAlwaysParent(doc, reply) == [body |-> doc, parentId |-> reply.id]

\* gatherer.py:243-245: the JSON body of the request.
PostBody(doc, reply) ==
    IF reply.none THEN [body |-> doc]
    ELSE [body |-> doc, parentId |-> reply.id]

\* A handler `except HTTPError`.
HandlerCatchesHttpErrorOnly(exc) == exc = "HTTPError"

\* gatherer.py:261, `except Exception`: every exception of the try block.
HandlerCatches(exc) == exc \in {"HTTPError", "ConnectionError"}

\* post_adf(issue, adf, reply_comment=reply), given what the session does:
\* [requests, log, raised].
post_adf(doc, reply, answer) ==
    LET exc == IF answer.raises THEN "ConnectionError"
               ELSE IF RaisesForStatus(answer.status_code) THEN "HTTPError"
               ELSE "none"
        info == IF answer.raises THEN <<>>
                ELSE <<[level |-> "info", what |-> "HTTP status",
                        status_code |-> answer.status_code]>>
        failure == IF exc # "none" /\ HandlerCatches(exc)
                   THEN <<[level |-> "exception", what |-> exc,
                           status_code |-> answer.status_code]>>
                   ELSE <<>>
    IN [requests |-> <<Request("POST comment", PostBody(doc, reply))>>,
        log |-> info \o failure,
        raised |-> exc # "none" /\ ~HandlerCatches(exc)]

\* The requests ai_filter_comments issues, given whether
\* chat.completions.create returns: one call, in no loop and no try block.
ai_filter_comments_requests(reply_ok) == <<Request("chat completion", <<>>)>>

\* The same with one more attempt after a failed call.
query_pinecone_requests_retry(emb_ok, idx_ok) ==
    IF ~emb_ok THEN <<Request("embedding", <<>>), Request("embedding", <<>>)>>
    ELSE IF ~idx_ok THEN <<Request("embedding", <<>>), Request("index query", <<>>),
                           Request("index query", <<>>)>>
    ELSE <<Request("embedding", <<>>), Request("index query", <<>>)>>

\* The requests query_pinecone issues: embeddings.create, then idx.query
\* unless the first call raised.
query_pinecone_requests(emb_ok, idx_ok) ==
    IF emb_ok THEN <<Request("embedding", <<>>), Request("index query", <<>>)>>
    ELSE <<Request("embedding", <<>>)>>

PostIdle ==
    /\ target_pattern = NoPattern
    /\ reply_comment = NoComment
    /\ post_answer = HttpResponse(201)
    /\ post_log = <<>>
    /\ post_raised = FALSE

(***************************************************************************)
(* Inputs of the renderer call.                                            *)
(***************************************************************************)
Today == "2026-10-30"       \* datetime.date.today().isoformat()

TextChars == {"a", " ", "\n", "\r"}
RefUniverse == { Reference("A", "t", "http://x/1"),
                 Reference("B", "t", "http://x/1"),
                 Reference("C", "t", "http://x/2") }

EmptyDoc == [type |-> "doc", version |-> 1, content |-> <<>>]

RenderIdle ==
    /\ completion_content = <<>>
    /\ references = <<>>
    /\ comment_text = <<>>
    /\ adf = EmptyDoc

InitRender ==
    /\ CompactIdle
    /\ PromptIdle
    /\ PostIdle
    /\ requests = <<>>
    /\ MainIdle
    /\ pc = "render"
    /\ FilterIdle
    /\ RetrieveIdle
    /\ BatchIdle
    /\ completion_content \in SeqsUpTo(TextChars, MaxTextLen)
    /\ references \in SeqsUpTo(RefUniverse, MaxRefs)
    /\ comment_text = <<>>
    /\ adf = EmptyDoc

BuildJiraComment ==
    /\ pc = "render"
    /\ LET r == build_jira_comment(completion_content, references, Today) IN
        /\ comment_text' = r.comment_text
        /\ adf' = r.adf
    /\ pc' = "rendered"
    /\ UNCHANGED <<completion_content, references>>
    /\ UNCHANGED <<filterVars, retrieveVars, batchVars, mainVars,
                   compactVars, promptVars, postVars, requests>>

NextRender == BuildJiraComment

SpecRender == InitRender /\ [][NextRender]_vars

(***************************************************************************)
(* Inputs of the classifier call.                                          *)
(***************************************************************************)
CandidateLists ==
    { <<Comment("10", <<"a">>), Comment("11", <<"b">>), Comment("12", <<"c">>)>>,
      <<Comment("12", <<"c">>), Comment("10", <<"a">>), Comment("11", <<"b">>)>>,
      <<>> }

ScoreKeys == {"10", "11", "99"}            \* "99" is no candidate comment
ScoreToks == {NumTok(30), NumTok(50), NumTok(70), NumTok(150), StrTok("high"),
              StrTok("0.7")}
Thresholds == {DefaultRelevance, 70}
\* Thresholds outside the range the Percent annotation names: -0.1 and 1.5.
OutOfRangeThresholds == {-10, 150}

RECURSIVE EntryToks(_)
\* "k1": v1, "k2": v2, ...
EntryToks(es) ==
    IF es = <<>> THEN <<>>
    ELSE <<StrTok(es[1][1]), COLON, es[1][2]>>
         \o (IF Len(es) > 1 THEN <<COMMA>> ELSE <<>>)
         \o EntryToks(Tail(es))

ScoresObject(es) == <<LB>> \o EntryToks(es) \o <<RB>>

\* {"scores": {...}}
Response(es) == <<LB, StrTok("scores"), COLON>> \o ScoresObject(es) \o <<RB>>

\* The response texts the model is given for one list of entries.
Shapes(es) ==
    { Response(es),                                           \* the object alone
      <<WS>> \o Response(es) \o <<WS>>,                       \* padded
      <<JUNK>> \o Response(es) \o <<JUNK>>,                   \* prose around it
      <<JUNK>> \o Response(es) \o <<JUNK, LB, JUNK, RB>>,     \* braces after it
      <<LB, StrTok("scores"), COLON>> \o ScoresObject(es)
          \o <<COMMA, StrTok("note"), COLON, StrTok("x"), RB>>, \* extra field
      ScoresObject(es),                                       \* no "scores" key
      SubSeq(Response(es), 1, Len(Response(es)) - 1),         \* cut short
      <<JUNK>> \o EntryToks(es) }                             \* no object at all

Contents ==
    UNION {Shapes(es) : es \in SeqsUpTo(ScoreKeys \X ScoreToks, MaxEntries)}
    \cup {<<>>, <<NULL>>, <<NumTok(70)>>, <<StrTok("scores")>>, <<RB, LB>>}

\* The responses tried with a threshold outside the range.
OutOfRangeContents ==
    { Response(<< <<"10", NumTok(70)>>, <<"11", NumTok(30)>> >>),
      Response(<< <<"10", NumTok(100)>> >>),
      <<JUNK>> }

InitFilter ==
    /\ CompactIdle
    /\ PromptIdle
    /\ PostIdle
    /\ requests = <<>>
    /\ MainIdle
    /\ pc = "filter"
    /\ RenderIdle
    /\ RetrieveIdle
    /\ BatchIdle
    /\ comments \in CandidateLists
    /\ \/ relevance_score \in Thresholds /\ content \in Contents
       \/ relevance_score \in OutOfRangeThresholds /\ content \in OutOfRangeContents
    /\ selected = <<>>
    /\ scores = EmptyMap
    /\ raised = FALSE

AiFilterComments ==
    /\ pc = "filter"
    /\ LET r == ai_filter_comments(content, comments, relevance_score) IN
        /\ selected' = r.selected
        /\ scores' = r.scores
        /\ raised' = r.raised
    /\ pc' = "filtered"
    /\ requests' = requests \o ai_filter_comments_requests(TRUE)
    /\ UNCHANGED <<content, comments, relevance_score>>
    /\ UNCHANGED <<renderVars, retrieveVars, batchVars, mainVars,
                   compactVars, promptVars, postVars>>

\* chat.completions.create raises: the call is in no try block, so the
\* exception leaves ai_filter_comments.
AiFilterCommentsCallFails ==
    /\ pc = "filter"
    /\ pc' = "completion failed"
    /\ raised' = TRUE
    /\ requests' = requests \o ai_filter_comments_requests(FALSE)
    /\ UNCHANGED <<content, comments, relevance_score, selected, scores>>
    /\ UNCHANGED <<renderVars, retrieveVars, batchVars, mainVars,
                   compactVars, promptVars, postVars>>

NextFilter == AiFilterComments \/ AiFilterCommentsCallFails

SpecFilter == InitFilter /\ [][NextFilter]_vars

(***************************************************************************)
(* Claims about the classifier (checked under SpecFilter).                 *)
(***************************************************************************)
CandidateIds == {comments[i].id : i \in 1..Len(comments)}

Ids(cs) == [i \in 1..Len(cs) |-> cs[i].id]

ExampleEntries == << <<"10", NumTok(70)>>, <<"11", NumTok(30)>> >>

\* C1: selected is exactly the comments of the issue, in the issue's order,
\* whose id has an entry in the returned score map with value >= threshold
\* (inclusive); comments without an entry are left out.  With scores
\* {10: 0.7, 11: 0.3}, threshold 0.5 and candidates [10, 11, 12], selected
\* is [10].
C1_SelectionRule ==
    pc = "filtered" =>
        /\ selected = SelectSeq(comments,
                LAMBDA c : c.id \in DOMAIN scores
                           /\ scores[c.id] >= relevance_score)
        /\ ( /\ content = Response(ExampleEntries)
             /\ relevance_score = DefaultRelevance
             /\ Ids(comments) = <<"10", "11", "12">> )
           => Ids(selected) = <<"10">>
        /\ ~raised

\* A comment scored exactly at the threshold is selected, one below it and
\* one without a score are not.
C1_Witness ==
    /\ pc = "filtered"
    /\ Ids(comments) = <<"10", "11", "12">>
    /\ scores = ("10" :> 50 @@ "11" :> 30)
    /\ relevance_score = 50
    /\ Ids(selected) = <<"10">>

\* C2: every key of the returned score map is the id of a candidate comment.
C2_ScoreKeysAreCandidates ==
    pc = "filtered" => DOMAIN scores \subseteq CandidateIds

\* The object under "scores" of a response that decodes to {"scores": {...}}
\* and nothing else; the empty map for any other response.
ResponseEntries ==
    LET got == _extract_json(content).val IN
    IF got.t = "obj" /\ DOMAIN got.m = {"scores"} /\ got.m["scores"].t = "obj"
    THEN got.m["scores"].m
    ELSE EmptyMap

\* C3: of a response {"scores": {...}} the entries that are numbers in
\* [0, 1] are kept in the returned score map, whatever the other entries
\* are, and the other entries are dropped.
C3_BadEntriesDroppedOnly ==
    pc = "filtered" =>
        /\ DOMAIN scores = {k \in DOMAIN ResponseEntries : ScoreOk(ResponseEntries[k])}
        /\ \A k \in DOMAIN scores : scores[k] = FloatOf(ResponseEntries[k]).f

\* The response text has no JSON reading: neither as a whole nor as the
\* block found by the pattern search.
Unparseable(text) ==
    /\ ~json_loads(strip(text)).ok
    /\ LET m == re_search_braces(strip(text)) IN
          m.found => ~json_loads(m.group).ok

\* C4: for a response text that cannot be parsed as JSON, directly or
\* through the block fallback, the call returns ([], {}) and does not raise.
C4_GarbageGivesEmpty ==
    (pc = "filtered" /\ Unparseable(content)) =>
        selected = <<>> /\ scores = EmptyMap /\ ~raised

\* Garbage in which the pattern search does find a block.
C4_Witness ==
    /\ pc = "filtered"
    /\ Unparseable(content)
    /\ re_search_braces(strip(content)).found
    /\ comments # <<>>
    /\ selected = <<>>
    /\ scores = EmptyMap

(***************************************************************************)
(* Claims about the renderer (checked under SpecRender).                   *)
(***************************************************************************)
\* Reading the two outputs back.
AdfParagraphTexts(doc) ==
    LET ps == SelectSeq(doc.content, LAMBDA nd : nd.type = "paragraph")
    IN [i \in 1..Len(ps) |-> ps[i].content[1].text]

\* <<title, link target, date>> of every data row of the document's table.
AdfDataRows(doc) ==
    LET ex == SelectSeq(doc.content, LAMBDA nd : nd.type = "expand") IN
    IF ex = <<>> THEN <<>>
    ELSE LET rows == Tail(ex[1].content[1].content)
             link(r) == r.content[1].content[1].content[1]
             date(r) == r.content[2].content[1].content[1]
         IN [i \in 1..Len(rows) |->
                <<link(rows[i]).text[1], link(rows[i]).marks[1].attrs.href,
                  date(rows[i]).text[1]>>]

\* <<title, link target, date>> of every line |[title|source]|date| of the
\* plain text.
PlainDataRows(text) ==
    LET rows == SelectSeq(split_lines(text),
                    LAMBDA l : Len(l) = 9 /\ l[1] = "|" /\ l[2] = "[")
    IN [i \in 1..Len(rows) |-> <<rows[i][3], rows[i][5], rows[i][8]>>]

\* The blank-line separated blocks of the plain text, the table block aside.
PlainParagraphs(text) ==
    LET pieces == split_blank(text)
        kept == SelectSeq(pieces,
                    LAMBDA p : str_strip(p) # <<>> /\ str_strip(p)[1] # PlainHeader)
    IN [i \in 1..Len(kept) |-> str_strip(kept[i])]

Sources(refs) == {refs[i].source : i \in 1..Len(refs)}

FirstIndex(refs, src) == Min({k \in 1..Len(refs) : refs[k].source = src})

\* rows is refs with every later occurrence of a source removed.
IsFirstOccurrenceList(rows, refs) ==
    /\ \A i, j \in 1..Len(rows) : i # j => rows[i][2] # rows[j][2]
    /\ Len(rows) = Cardinality(Sources(refs))
    /\ \A i \in 1..Len(rows) :
          /\ rows[i][2] \in Sources(refs)
          /\ rows[i][1] = refs[FirstIndex(refs, rows[i][2])].title
    /\ \A i, j \in 1..Len(rows) :
          i < j => FirstIndex(refs, rows[i][2]) < FirstIndex(refs, rows[j][2])

ExampleRefs == << Reference("A", "t", "http://x/1"), Reference("B", "t", "http://x/1"),
                  Reference("C", "t", "http://x/2") >>

\* C7: the data rows of the table are the deduplicated reference list: no two
\* rows share a source, each source is represented by its first occurrence,
\* rows keep the input order, and there is one row per distinct source.  For
\* [A(http://x/1), B(http://x/1), C(http://x/2)] the rows are A and C.
C7_RowsAreDeduplicated ==
    pc = "rendered" =>
        /\ IsFirstOccurrenceList(AdfDataRows(adf), references)
        /\ IsFirstOccurrenceList(PlainDataRows(comment_text), references)
        /\ references = ExampleRefs =>
              AdfDataRows(adf) = << <<"A", "http://x/1", Today>>,
                                    <<"C", "http://x/2", Today>> >>

C7_Witness ==
    /\ pc = "rendered"
    /\ references = ExampleRefs
    /\ Len(AdfDataRows(adf)) = 2
    /\ Len(PlainDataRows(comment_text)) = 2

\* C8: for every completion text and reference list, the empty list
\* included, the document has one top-level paragraph node per non-empty
\* paragraph of the completion text, in order, and as many as the plain text
\* has paragraphs.
C8_ParagraphNodesMatch ==
    pc = "rendered" =>
        /\ AdfParagraphTexts(adf) = Paragraphs(completion_content)
        /\ Len(AdfParagraphTexts(adf)) = Len(PlainParagraphs(comment_text))

\* C9: the data rows of the plain-text table and of the document's table
\* carry the same title, link target and date, row by row, and both are the
\* one deduplicated list.
C9_TablesAgree ==
    pc = "rendered" =>
        /\ PlainDataRows(comment_text) = AdfDataRows(adf)
        /\ AdfDataRows(adf) = RefsList(references, Today)

C9_Witness ==
    /\ pc = "rendered"
    /\ Len(PlainDataRows(comment_text)) = 2
    /\ Len(references) = 3
    /\ Len(AdfParagraphTexts(adf)) = 2

(***************************************************************************)
(* The retriever call.                                                     *)
(***************************************************************************)
InitRetrieve ==
    /\ CompactIdle
    /\ PromptIdle
    /\ PostIdle
    /\ requests = <<>>
    /\ MainIdle
    /\ pc = "retrieve"
    /\ FilterIdle
    /\ RenderIdle
    /\ BatchIdle
    /\ embedding_ok \in BOOLEAN
    /\ index_ok \in BOOLEAN
    /\ matches \in SeqsUpTo(MatchUniverse, MaxMatches)
    /\ retrieved = <<>>
    /\ retrieve_raised = FALSE

QueryPinecone ==
    /\ pc = "retrieve"
    /\ LET r == query_pinecone(embedding_ok, index_ok, matches) IN
        /\ retrieved' = r.refs
        /\ retrieve_raised' = r.raised
    /\ pc' = "retrieved"
    /\ requests' = requests \o query_pinecone_requests(embedding_ok, index_ok)
    /\ UNCHANGED <<embedding_ok, index_ok, matches>>
    /\ UNCHANGED <<filterVars, renderVars, batchVars, mainVars,
                   compactVars, promptVars, postVars>>

NextRetrieve == QueryPinecone

SpecRetrieve == InitRetrieve /\ [][NextRetrieve]_vars

RECURSIVE FirstPerSource(_, _)
\* The matches with every later occurrence of a source left out.
FirstPerSource(ms, seen) ==
    IF ms = <<>> THEN <<>>
    ELSE IF Head(ms).metadata.source \in seen
    THEN FirstPerSource(Tail(ms), seen)
    ELSE <<Reference(Head(ms).metadata.title, Head(ms).metadata.text,
                     Head(ms).metadata.source)>>
         \o FirstPerSource(Tail(ms), seen \cup {Head(ms).metadata.source})

\* C10: the list query_pinecone returns never holds two entries with the
\* same source; of several matches with one source the first in index order
\* is kept, and the kept entries stay in index order.
C10_RetrievedSourcesUnique ==
    (pc = "retrieved" /\ ~retrieve_raised) =>
        /\ \A i, j \in 1..Len(retrieved) :
              i # j => retrieved[i].source # retrieved[j].source
        /\ retrieved = FirstPerSource(matches, {})

(***************************************************************************)
(* The batch run.                                                          *)
(***************************************************************************)
IssueUniverse ==
    LET cs == <<Comment("10", <<"a">>), Comment("11", <<"b">>)>> IN
    { BatchIssue(cs, TRUE, Response(<< <<"10", NumTok(70)>> >>)),
      BatchIssue(cs, TRUE, Response(<< <<"10", NumTok(30)>> >>)),
      BatchIssue(cs, TRUE, <<JUNK>>),
      BatchIssue(cs, FALSE, <<>>) }

InitBatch ==
    /\ CompactIdle
    /\ PromptIdle
    /\ PostIdle
    /\ requests = <<>>
    /\ MainIdle
    /\ pc = "loop"
    /\ FilterIdle
    /\ RenderIdle
    /\ RetrieveIdle
    /\ batch \in SeqsUpTo(IssueUniverse, MaxIssues)
    /\ cursor = 1
    /\ reports = <<>>

\* One turn of `for issue in matching_comments.keys()`: process_issue returns.
ProcessIssue ==
    /\ pc = "loop"
    /\ cursor <= Len(batch)
    /\ batch[cursor].reply.ok
    /\ reports' = Append(reports, [issue |-> cursor] @@ process_issue(batch[cursor]))
    /\ cursor' = cursor + 1
    /\ UNCHANGED <<pc, batch>>
    /\ UNCHANGED <<filterVars, renderVars, retrieveVars, mainVars,
                   compactVars, promptVars, postVars, requests>>

\* One turn in which the completion call of process_issue raises: the call
\* of process_issue is in no try block, so the exception leaves main().
ProcessIssueRaises ==
    /\ pc = "loop"
    /\ cursor <= Len(batch)
    /\ ~batch[cursor].reply.ok
    /\ pc' = "aborted"
    /\ cursor' = cursor + 1
    /\ UNCHANGED <<batch, reports>>
    /\ UNCHANGED <<filterVars, renderVars, retrieveVars, mainVars,
                   compactVars, promptVars, postVars, requests>>

\* The loop runs out of issues and main() returns.
BatchEnds ==
    /\ pc = "loop"
    /\ cursor > Len(batch)
    /\ pc' = "finished"
    /\ UNCHANGED <<batch, cursor, reports>>
    /\ UNCHANGED <<filterVars, renderVars, retrieveVars, mainVars,
                   compactVars, promptVars, postVars, requests>>

NextBatch == ProcessIssue \/ ProcessIssueRaises \/ BatchEnds

SpecBatch == InitBatch /\ [][NextBatch]_vars

\* C5: an error raised while one issue is processed is caught and the later
\* issues are still processed: when the run has ended, by returning or by
\* an exception, every issue of the batch has had its turn.
C5_BatchSurvivesFailure ==
    pc \in {"finished", "aborted"} => cursor = Len(batch) + 1

(***************************************************************************)
(* The single-issue run: main() of main.py.                                *)
(***************************************************************************)
\* The statements of main() after the clients are built, in program order.
MainStages ==
    << "fetch",           \* main.py:51     jira.issue(...)
       "find",            \* main.py:56-67  the online-help comment, or exit(1)
       "embed",           \* main.py:71-78  embeddings.create
       "query",           \* main.py:80-89  idx.query
       "sources",         \* main.py:91     doc["metadata"]["source"] per match
       "system_prompt",   \* main.py:96-100 read prompt/system.md
       "user_prompt",     \* main.py:104-113
       "write_messages",  \* main.py:121-127
       "completion",      \* main.py:135-140 read result.md
       "write_result",    \* main.py:144-146
       "build",           \* main.py:151-189 refs_list and comment_text
       "write_comment",   \* main.py:192-194
       "build_adf",       \* main.py:200-295
       "write_adf",       \* main.py:298-300
       "post" >>          \* main.py:303-312

StageIndex(st) == CHOOSE i \in 1..Len(MainStages) : MainStages[i] = st
IsStage(st) == \E i \in 1..Len(MainStages) : MainStages[i] = st
NextStage(st) ==
    IF StageIndex(st) = Len(MainStages) THEN "returned"
    ELSE MainStages[StageIndex(st) + 1]

\* Stages that call a collaborator or the file system and so may raise.
ExternalStages ==
    {"fetch", "embed", "query", "system_prompt", "write_messages", "completion",
     "write_result", "write_comment", "write_adf"}

\* A handler around every call and file access that logs and goes on with
\* the next stage.
AfterStageErrorGoOn(st) ==
    IF st \in ExternalStages \cup {"post"} THEN NextStage(st) ELSE "crashed"

\* Where main() is after stage st raised: only the post is in a try block
\* (main.py:303-312); anywhere else the exception ends the run.
AfterStageError(st) == IF st = "post" THEN "returned" ELSE "crashed"

\* str.lower() on the lines used below.
Lower(line) ==
    CASE line = "H1. Online Help" -> "h1. online help"
      [] line = "Doc & Test"      -> "doc & test"
      [] OTHER -> line

\* phrase in line, for the two phrases of main.py:61, on lower-case lines.
LineHasPhrase(line) == line \in {"h1. online help", "online help", "doc & test"}

\* main.py:59-62: a phrase occurs in the first two lines of the body joined
\* with nothing between them.
MentionsOnlineHelp(body) ==
    LET two == [i \in 1..(IF Len(body) < 2 THEN Len(body) ELSE 2) |-> Lower(body[i])]
    IN \/ \E i \in 1..Len(two) : LineHasPhrase(two[i])
       \/ Len(two) = 2 /\ two[1] = "online" /\ two[2] = " help"

\* The loop without its break: the last comment that mentions it is kept.
FindOnlineHelpLast(cs) ==
    LET hits == {i \in 1..Len(cs) : MentionsOnlineHelp(cs[i].body)}
    IN IF hits = {} THEN 0 ELSE Max(hits)

\* main.py:56-67: index of the first comment that mentions it, 0 if none.
FindOnlineHelp(cs) ==
    LET hits == {i \in 1..Len(cs) : MentionsOnlineHelp(cs[i].body)}
    IN IF hits = {} THEN 0 ELSE Min(hits)

RECURSIVE MainDedupLoop(_, _, _)
\* main.py:154-170: as text.py:30-36, with an empty source skipped too.
MainDedupLoop(ms, seen, today) ==
    IF ms = <<>> THEN <<>>
    ELSE LET meta == Head(ms).metadata IN
        IF meta.source = "" \/ meta.source \in seen
        THEN MainDedupLoop(Tail(ms), seen, today)
        ELSE <<<<meta.title, meta.source, today>>>>
             \o MainDedupLoop(Tail(ms), seen \cup {meta.source}, today)

MainBodies ==
    { <<"thanks">>,
      <<"H1. Online Help", "details">>,
      <<"thanks", "more", "online help">>,
      <<"online", " help">> }

MainCommentLists ==
    LET bodies == SeqsUpTo(MainBodies, MaxComments)
    IN {[i \in 1..Len(b) |-> Comment(ToString(i), b[i])] : b \in bodies}

MainMatchLists ==
    { <<>>,
      <<Match([title |-> "A", text |-> "t", source |-> "http://x/1"])>>,
      <<Match([title |-> "A", text |-> "t", source |-> "http://x/1"]),
        Match([title |-> "B", text |-> "t", source |-> "http://x/1"]),
        Match([title |-> "C", text |-> "t", source |-> "http://x/2"])>>,
      <<Match([title |-> "A", text |-> "t", source |-> "http://x/1"]),
        Match([title |-> "D", text |-> "t"])>>,
      <<Match([text |-> "t", source |-> "http://x/2"])>> }

MainCompletions == { <<>>, <<"a">>, <<"a", "\n", "\n", "a">> }

InitMain ==
    /\ CompactIdle
    /\ PromptIdle
    /\ PostIdle
    /\ requests = <<>>
    /\ pc = "fetch"
    /\ FilterIdle
    /\ RenderIdle
    /\ RetrieveIdle
    /\ BatchIdle
    /\ MainIdle

Completes(st) ==
    /\ pc = st
    /\ pc' = NextStage(st)
    /\ done_stages' = Append(done_stages, st)

MainRest == <<content, relevance_score, selected, scores, raised, references,
              embedding_ok, index_ok, retrieved, retrieve_raised, batchVars,
              compactVars, promptVars, postVars, requests>>

\* MainRest without the requests.
MainRestButRequests ==
    <<content, relevance_score, selected, scores, raised, references,
      embedding_ok, index_ok, retrieved, retrieve_raised, batchVars,
      compactVars, promptVars, postVars>>

\* main.py:71-76: embeddings.create(model=..., input=onlinehelp_comment.body)
EmbeddingRequest(cs, picked) == Request("embedding", cs[picked].body)

MainFetchIssue ==
    /\ Completes("fetch")
    /\ comments' \in MainCommentLists
    /\ UNCHANGED <<matches, completion_content, comment_text, adf,
                   onlinehelp_comment, post_calls, MainRest>>

MainFindComment ==
    /\ FindOnlineHelp(comments) # 0
    /\ Completes("find")
    /\ onlinehelp_comment' = FindOnlineHelp(comments)
    /\ UNCHANGED <<comments, matches, completion_content, comment_text, adf,
                   post_calls, MainRest>>

\* The else branch of the for loop: exit(1).
MainExitNoComment ==
    /\ pc = "find"
    /\ FindOnlineHelp(comments) = 0
    /\ pc' = "exit1"
    /\ UNCHANGED <<comments, matches, completion_content, comment_text, adf,
                   mainVars, MainRest>>

\* main.py:71-78: the embedding of the picked comment's body is requested.
MainEmbed ==
    /\ Completes("embed")
    /\ requests' = Append(requests, EmbeddingRequest(comments, onlinehelp_comment))
    /\ UNCHANGED <<comments, matches, completion_content, comment_text, adf,
                   onlinehelp_comment, post_calls, MainRestButRequests>>

MainQueryIndex ==
    /\ Completes("query")
    /\ matches' \in MainMatchLists
    /\ UNCHANGED <<comments, completion_content, comment_text, adf,
                   onlinehelp_comment, post_calls, MainRest>>

\* The two comprehensions that index the metadata of every match.
MainReadMetadata ==
    /\ \E st \in {"sources", "user_prompt"} :
          /\ Completes(st)
          /\ \A i \in 1..Len(matches) :
                IF st = "sources" THEN "source" \in DOMAIN matches[i].metadata
                ELSE {"title", "text"} \subseteq DOMAIN matches[i].metadata
    /\ UNCHANGED <<comments, matches, completion_content, comment_text, adf,
                   onlinehelp_comment, post_calls, MainRest>>

\* A stage whose only effect is a call or a file read or written.
MainExternalStep ==
    /\ \E st \in ExternalStages \ {"fetch", "embed", "query", "completion"} :
          Completes(st)
    /\ UNCHANGED <<comments, matches, completion_content, comment_text, adf,
                   onlinehelp_comment, post_calls, MainRest>>

MainReadCompletion ==
    /\ Completes("completion")
    /\ completion_content' \in MainCompletions
    /\ UNCHANGED <<comments, matches, comment_text, adf,
                   onlinehelp_comment, post_calls, MainRest>>

MainBuildComment ==
    /\ Completes("build")
    /\ comment_text' = PlainText(Paragraphs(completion_content),
                                 MainDedupLoop(matches, {}, Today))
    /\ UNCHANGED <<comments, matches, completion_content, adf,
                   onlinehelp_comment, post_calls, MainRest>>

MainBuildAdf ==
    /\ Completes("build_adf")
    /\ adf' = AdfDoc(completion_content, MainDedupLoop(matches, {}, Today))
    /\ UNCHANGED <<comments, matches, completion_content, comment_text,
                   onlinehelp_comment, post_calls, MainRest>>

\* The request is answered, with a success or an error status; an error
\* status raises in raise_for_status and is logged by the handler.
MainPost ==
    /\ Completes("post")
    /\ \E status \in {"ok", "http error"} :
          post_calls' = Append(post_calls, [body |-> adf, status |-> status])
    /\ UNCHANGED <<comments, matches, completion_content, comment_text, adf,
                   onlinehelp_comment, MainRest>>

\* The current stage raises: a failing call, an unreadable or unwritable
\* file, a KeyError on a missing metadata key, a failing request of the post.
MainStageRaises ==
    /\ IsStage(pc)
    /\ \/ pc \in ExternalStages
       \/ pc = "post"
       \/ pc = "sources"
          /\ \E i \in 1..Len(matches) : "source" \notin DOMAIN matches[i].metadata
       \/ pc = "user_prompt"
          /\ \E i \in 1..Len(matches) :
                ~({"title", "text"} \subseteq DOMAIN matches[i].metadata)
    /\ pc' = AfterStageError(pc)
    /\ post_calls' = IF pc = "post"
                     THEN Append(post_calls, [body |-> adf, status |-> "no answer"])
                     ELSE post_calls
    /\ requests' = IF pc = "embed"
                   THEN Append(requests, EmbeddingRequest(comments, onlinehelp_comment))
                   ELSE requests
    /\ UNCHANGED <<comments, matches, completion_content, comment_text, adf,
                   onlinehelp_comment, done_stages, MainRestButRequests>>

NextMain ==
    \/ MainFetchIssue \/ MainFindComment \/ MainExitNoComment \/ MainEmbed
    \/ MainQueryIndex
    \/ MainReadMetadata \/ MainExternalStep \/ MainReadCompletion
    \/ MainBuildComment \/ MainBuildAdf \/ MainPost \/ MainStageRaises

SpecMain == InitMain /\ [][NextMain]_vars

StagesBeforePost == SubSeq(MainStages, 1, Len(MainStages) - 1)

\* C6: the post is the last step of the run: a request goes to the tracker
\* only once every earlier stage has completed, it carries the finished
\* document, there is at most one per run, and a run that ended in an
\* earlier stage has made none.
C6_PostIsLast ==
    /\ Len(post_calls) <= 1
    /\ post_calls # <<>> =>
          /\ Len(done_stages) >= Len(StagesBeforePost)
          /\ SubSeq(done_stages, 1, Len(StagesBeforePost)) = StagesBeforePost
          /\ post_calls[1].body =
                AdfDoc(completion_content, MainDedupLoop(matches, {}, Today))
          /\ pc = "returned"
    /\ pc \in {"crashed", "exit1"} => post_calls = <<>>

\* A run that posted a document with two paragraphs and a table.
C6_Witness ==
    /\ pc = "returned"
    /\ Len(post_calls) = 1
    /\ post_calls[1].status = "ok"
    /\ Len(post_calls[1].body.content) = 3

(***************************************************************************)
(* The compaction call.                                                    *)
(***************************************************************************)
MaxCompactLen == 2000   \* characters of the body of a text to compact

\* The limits the pipeline passes (gatherer.py:69,101,102,110; builder.py:94,
\* 102) and limits around the head and tail sizes.
CompactLimits == {0, 1, 100, 199, 200, 219, 220, 221, 240, 500, 1200, 1500, 1800}

\* White space around the body of a text.
CompactPads == {<<>>, <<" ">>, <<"\r", "\n">>}

\* A body of n characters; with cr, some of them are carriage returns.
CompactBody(n, cr) ==
    [i \in 1..n |-> IF cr /\ i % 50 = 7 THEN "\r"
                    ELSE IF i % 3 = 0 THEN "a"
                    ELSE IF i % 3 = 1 THEN "b" ELSE "c"]

\* Lengths at and around every limit, some between, and the longest.
CompactLengths ==
    {n \in 0..MaxCompactLen :
        \/ \E l \in CompactLimits : n \in {l - 1, l, l + 1, l + 2}
        \/ n % 300 = 50
        \/ n = MaxCompactLen}

CompactTexts ==
    {lead \o CompactBody(n, cr) \o trail :
        lead \in CompactPads, trail \in CompactPads,
        n \in CompactLengths, cr \in BOOLEAN}

InitCompact ==
    /\ pc = "compact"
    /\ FilterIdle
    /\ RenderIdle
    /\ RetrieveIdle
    /\ BatchIdle
    /\ MainIdle
    /\ PromptIdle
    /\ PostIdle
    /\ requests = <<>>
    /\ compact_which \in {"gatherer", "builder"}
    /\ compact_text \in CompactTexts
    /\ compact_limit \in CompactLimits
    /\ compact_out = <<>>

Compact ==
    /\ pc = "compact"
    /\ compact_out' = IF compact_which = "gatherer"
                      THEN _compact(compact_text, compact_limit)
                      ELSE compile_messages_compact(compact_text, compact_limit)
    /\ pc' = "compacted"
    /\ UNCHANGED <<compact_which, compact_text, compact_limit>>
    /\ UNCHANGED <<filterVars, renderVars, retrieveVars, batchVars, mainVars,
                   promptVars, postVars, requests>>

\* The same helper applied to its own result, with the same limit.
CompactAgain ==
    /\ pc = "compacted"
    /\ compact_text' = compact_out
    /\ compact_out' = IF compact_which = "gatherer"
                      THEN _compact(compact_out, compact_limit)
                      ELSE compile_messages_compact(compact_out, compact_limit)
    /\ pc' = "recompacted"
    /\ UNCHANGED <<compact_which, compact_limit>>
    /\ UNCHANGED <<filterVars, renderVars, retrieveVars, batchVars, mainVars,
                   promptVars, postVars, requests>>

NextCompact == Compact \/ CompactAgain

SpecCompact == InitCompact /\ [][NextCompact]_vars

\* C11: for every text and every limit, small limits included, the compacted
\* output is at most limit + length of the truncation marker characters
\* long, for the gatherer's and for the prompt compiler's compaction.
C11_CompactedLengthBounded ==
    pc = "compacted" =>
        Len(compact_out) <= compact_limit + Len(TruncationMarker)

\* C12: a text whose length is at most the limit is returned exactly as it
\* was given, white space at its ends and carriage returns included.
C12_ShortTextReturnedExactly ==
    (pc = "compacted" /\ Len(compact_text) <= compact_limit) =>
        compact_out = compact_text

(***************************************************************************)
(* Further claims about the classifier (checked under SpecFilter).         *)
(***************************************************************************)
\* The value decoded from the response is an object with the one field scores.
ExactlyScoresObject(v) == v.t = "obj" /\ DOMAIN v.m = {"scores"}

\* {"scores": {...}, "note": "x"}
WithExtraField(es) ==
    <<LB, StrTok("scores"), COLON>> \o ScoresObject(es)
    \o <<COMMA, StrTok("note"), COLON, StrTok("x"), RB>>

\* C13: a response that parses as JSON but is not exactly an object whose
\* only top-level field is scores (another field is present, or it is no
\* object) is rejected as a whole: the call returns ([], {}) and does not
\* raise, also when a well-formed scores field is present.
C13_OtherShapesRejected ==
    ( /\ pc = "filtered"
      /\ ~Unparseable(content)
      /\ ~ExactlyScoresObject(_extract_json(content).val) )
    => (selected = <<>> /\ scores = EmptyMap /\ ~raised)

\* A response whose scores field alone would select comment 10, with one
\* more top-level field.
C13_Witness ==
    /\ pc = "filtered"
    /\ content = WithExtraField(<< <<"10", NumTok(70)>> >>)
    /\ Ids(comments) = <<"10", "11", "12">>
    /\ relevance_score = DefaultRelevance
    /\ selected = <<>>
    /\ scores = EmptyMap
    /\ ~raised

(***************************************************************************)
(* Further claims about the retriever (checked under SpecRetrieve).        *)
(***************************************************************************)
\* C14: if a match returned by the index lacks one of the metadata fields
\* title, text or source, query_pinecone raises and returns no list: it never
\* returns a list that skips the incomplete match or fills in a default.
C14_MissingFieldIsFatal ==
    ( /\ pc = "retrieved"
      /\ embedding_ok /\ index_ok
      /\ \E i \in 1..Len(matches) :
            \E f \in {"title", "text", "source"} : f \notin DOMAIN matches[i].metadata )
    => (retrieve_raised /\ retrieved = <<>>)

\* Both calls answered, a complete match followed by one without a source.
C14_Witness ==
    /\ pc = "retrieved"
    /\ embedding_ok /\ index_ok
    /\ Len(matches) = 2
    /\ DOMAIN matches[1].metadata = {"title", "text", "source"}
    /\ DOMAIN matches[2].metadata = {"title", "text"}
    /\ retrieve_raised
    /\ retrieved = <<>>

(***************************************************************************)
(* The poster call.                                                        *)
(***************************************************************************)
\* Documents to post: what the renderer builds from a few inputs.
PostDocs ==
    {build_jira_comment(t, r, Today).adf :
        t \in {<<"a">>, <<"a", "\n", "\n", "a">>},
        r \in SeqsUpTo(RefUniverse, MaxRefs)}

PostReplies == {NoComment, ReplyTo("10"), ReplyTo("11")}

PostAnswers == {NoResponse} \cup {HttpResponse(c) : c \in {201, 400, 404, 500}}

InitPost ==
    /\ pc = "post_adf"
    /\ FilterIdle
    /\ RetrieveIdle
    /\ BatchIdle
    /\ MainIdle
    /\ CompactIdle
    /\ PromptIdle
    /\ completion_content = <<>>
    /\ references = <<>>
    /\ comment_text = <<>>
    /\ adf \in PostDocs
    /\ reply_comment \in PostReplies
    /\ target_pattern = NoPattern
    /\ post_answer \in PostAnswers
    /\ post_log = <<>>
    /\ post_raised = FALSE
    /\ requests = <<>>

PostAdf ==
    /\ pc = "post_adf"
    /\ LET r == post_adf(adf, reply_comment, post_answer) IN
        /\ requests' = requests \o r.requests
        /\ post_log' = r.log
        /\ post_raised' = r.raised
        /\ pc' = IF r.raised THEN "post raised" ELSE "post returned"
    /\ UNCHANGED <<reply_comment, post_answer, target_pattern>>
    /\ UNCHANGED <<filterVars, renderVars, retrieveVars, batchVars, mainVars,
                   compactVars, promptVars>>

NextPost == PostAdf

SpecPost == InitPost /\ [][NextPost]_vars

\* The request was not answered with a success status.
PostFailed == post_answer.raises \/ RaisesForStatus(post_answer.status_code)

\* C15: post_adf never propagates an error: whether the request itself
\* raises or the tracker answers with an error status, the failure is logged
\* and the call returns normally.
C15_PostNeverRaises ==
    pc # "post_adf" =>
        /\ pc = "post returned"
        /\ ~post_raised
        /\ PostFailed =>
              /\ post_log # <<>>
              /\ post_log[Len(post_log)].level = "exception"
        /\ ~PostFailed =>
              \A i \in 1..Len(post_log) : post_log[i].level # "exception"

\* The request raised and the call returned after logging it.
C15_Witness ==
    /\ pc = "post returned"
    /\ post_answer.raises
    /\ ~post_raised
    /\ Len(post_log) = 1
    /\ post_log[1].level = "exception"
    /\ Len(requests) = 1

(***************************************************************************)
(* One call of the gatherer, any of the three that reach outside.          *)
(***************************************************************************)
\* Responses for the classifier call: well-formed, with an extra field,
\* prose only, empty.
CallContents ==
    { Response(ExampleEntries), WithExtraField(ExampleEntries), <<JUNK>>, <<>> }

InitCalls ==
    \/ /\ InitFilter
       /\ content \in CallContents
    \/ InitRetrieve
    \/ InitPost

NextCalls == AiFilterComments \/ AiFilterCommentsCallFails \/ QueryPinecone \/ PostAdf

SpecCalls == InitCalls /\ [][NextCalls]_vars

RequestKinds == [i \in 1..Len(requests) |-> requests[i].kind]

\* C16: no external call is retried: a call of ai_filter_comments issues
\* exactly one completion request, a call of query_pinecone exactly one
\* embedding request and at most one index query, a call of post_adf at most
\* one POST, also when the response is malformed or the call fails.
C16_NoRetries ==
    /\ pc \in {"filter", "retrieve", "post_adf"} => requests = <<>>
    /\ pc \in {"filtered", "completion failed"} =>
          RequestKinds = <<"chat completion">>
    /\ pc = "retrieved" =>
          RequestKinds \in {<<"embedding">>, <<"embedding", "index query">>}
    /\ pc \in {"post returned", "post raised"} =>
          RequestKinds \in {<<>>, <<"POST comment">>}

\* The index query failed after a successful embedding request and was not
\* repeated.
C16_Witness ==
    /\ pc = "retrieved"
    /\ embedding_ok /\ ~index_ok
    /\ retrieve_raised
    /\ RequestKinds = <<"embedding", "index query">>

(***************************************************************************)
(* The prompt compiler call.                                               *)
(***************************************************************************)
MaxPromptItems == 2     \* comments, and references, of a builder

PromptSystemPrompts == {NoneStr, PyStr(<<>>), PyStr(<<"You are a technical writer.">>)}

\* issue.fields.summary: one line.
PromptTopics == {NoneStr, PyStr(<<>>), PyStr(<<"Login fails on SSO">>)}

PromptCommentUniverse ==
    { UserComment(<<" ", "A", "n", " ">>, <<"f", "i", "x", "\r", "\n", "\n", "o", "k", " ">>),
      UserComment(<<>>, <<"#", "1">>) }

PromptRefUniverse ==
    { Reference("A", <<"#", "h", "\n", "b">>, "http://x/1"),
      Reference("B", <<"b", "\n", "#", "h">>, "http://x/1"),
      Reference("C", <<"b", "\n", "#", "#", "h", "\n", "#", "h">>, "http://x/2"),
      Reference("D", <<"b", "\r", "\n", "#", "h", " ">>, "http://x/3"),
      Reference("E", <<"b", "#">>, "http://x/4") }

InitPrompt ==
    /\ pc = "compile"
    /\ FilterIdle
    /\ RenderIdle
    /\ RetrieveIdle
    /\ BatchIdle
    /\ MainIdle
    /\ CompactIdle
    /\ PostIdle
    /\ requests = <<>>
    /\ system_prompt \in PromptSystemPrompts
    /\ topic \in PromptTopics
    /\ user_comments \in SeqsUpTo(PromptCommentUniverse, MaxPromptItems)
    /\ docs_references \in SeqsUpTo(PromptRefUniverse, MaxPromptItems)
    /\ prompt = <<>>
    /\ prompt_file = NoFile

\* Where the builder is while it exists: "compile" before any call on the
\* builder as it is now (new, or changed since the last call), "compiled"
\* after a call that returned, "compiled again" after a further call that
\* returned with no change of the builder since the one before, "compile
\* failed" after a call that raised with no returned call on the builder as
\* it is now, "recompile failed" after a call that raised when an earlier
\* call on the builder as it is now had returned.
BuilderPositions ==
    {"compile", "compiled", "compiled again", "compile failed", "recompile failed"}

\* No call has returned for the builder as it is now.
NothingReturnedYet == pc \in {"compile", "compile failed"}

\* compile_messages returns, whatever happened before: the list is built
\* from the builder, saved and returned.
CompileMessages ==
    /\ pc \in BuilderPositions
    /\ prompt' = compile_messages(system_prompt, topic, user_comments, docs_references)
    /\ prompt_file' = PromptFile(prompt')
    /\ pc' = IF NothingReturnedYet THEN "compiled" ELSE "compiled again"
    /\ LET b == compile_messages_builder(system_prompt, topic, user_comments,
                                         docs_references) IN
        /\ system_prompt' = b.system_prompt
        /\ topic' = b.topic
        /\ user_comments' = b.user_comments
        /\ docs_references' = b.docs_references
    /\ UNCHANGED <<filterVars, renderVars, retrieveVars, batchVars, mainVars,
                   compactVars, postVars, requests>>

\* The values assigned to builder.system_prompt.
PromptSetValues ==
    {<<>>, <<" ">>, <<" ", " ", "You are a technical writer.", " ", "\n">>}

\* A statement outside compile_messages stores in the builder: the list
\* returned earlier and prompt.json stay as they are, and the next call is
\* a first call on the changed builder.
BuilderStore(a) ==
    /\ pc \in BuilderPositions
    /\ LET b == AccessEffect([system_prompt |-> system_prompt, topic |-> topic,
                              user_comments |-> user_comments,
                              docs_references |-> docs_references], a) IN
        /\ system_prompt' = b.system_prompt
        /\ topic' = b.topic
        /\ user_comments' = b.user_comments
        /\ docs_references' = b.docs_references
    /\ pc' = "compile"
    /\ UNCHANGED <<prompt, prompt_file>>
    /\ UNCHANGED <<filterVars, renderVars, retrieveVars, batchVars, mainVars,
                   compactVars, postVars, requests>>

\* builder.system_prompt = value
SetSystemPrompt ==
    \E value \in PromptSetValues :
        BuilderStore(StoreIn("system_prompt", system_prompt_setter(value)))

\* del builder.system_prompt
DelSystemPrompt == BuilderStore(StoreIn("system_prompt", system_prompt_deleter))

\* os.makedirs, open or the write raises, in a first call or in any later
\* one: nothing is returned, the list returned earlier stays with the
\* caller, and the statements before the save have run on the builder.
CompileMessagesSaveFails ==
    /\ pc \in BuilderPositions
    /\ pc' = IF NothingReturnedYet THEN "compile failed" ELSE "recompile failed"
    /\ prompt_file' \in FailedSaveFiles(prompt_file)
    /\ LET b == compile_messages_builder(system_prompt, topic, user_comments,
                                         docs_references) IN
        /\ system_prompt' = b.system_prompt
        /\ topic' = b.topic
        /\ user_comments' = b.user_comments
        /\ docs_references' = b.docs_references
    /\ UNCHANGED prompt
    /\ UNCHANGED <<filterVars, renderVars, retrieveVars, batchVars, mainVars,
                   compactVars, postVars, requests>>

NextPrompt ==
    \/ CompileMessages \/ CompileMessagesSaveFails
    \/ SetSystemPrompt \/ DelSystemPrompt

SpecPrompt == InitPrompt /\ [][NextPrompt]_vars

\* Reading the compiled user content back.
UserContent == prompt[2].content

\* The places of piece a in text c, ascending.
Positions(c, a) == SelectSeq([i \in 1..Len(c) |-> i], LAMBDA i : c[i] = a)

Has(c, a) == Positions(c, a) # <<>>

SectionMarks == <<TopicHeader, CommentsHeader, ReferencesHeader, ClosingInstruction>>

\* C17: compile_messages returns two messages, system then user; the system
\* content is the builder's system prompt; in the user content the standing
\* instruction is first, then Topic, then the comments section, then the
\* reference section, the closing instruction last, and every part after the
\* first follows a blank line.
C17_TwoMessagesInOrder ==
    pc = "compiled" =>
        /\ Len(prompt) = 2
        /\ prompt[1].role = "system"
        /\ prompt[1].content = OrEmpty(system_prompt)
        /\ prompt[2].role = "user"
        /\ LET c == UserContent IN
            /\ c[1] = StandingInstruction
            /\ Positions(c, StandingInstruction) = <<1>>
            /\ c[Len(c)] = ClosingInstruction
            /\ \A i \in 1..Len(SectionMarks) :
                  LET ps == Positions(c, SectionMarks[i]) IN
                  /\ Len(ps) <= 1
                  /\ ps # <<>> =>
                        /\ ps[1] > 3
                        /\ c[ps[1] - 1] = "\n"
                        /\ c[ps[1] - 2] = "\n"
            /\ \A i, j \in 1..Len(SectionMarks) :
                  ( /\ i < j
                    /\ Has(c, SectionMarks[i])
                    /\ Has(c, SectionMarks[j]) )
                  => Positions(c, SectionMarks[i])[1] < Positions(c, SectionMarks[j])[1]

\* A builder with a topic, two comments and two references.
C17_Witness ==
    /\ pc = "compiled"
    /\ StrTruthy(topic)
    /\ Len(user_comments) = 2
    /\ Len(docs_references) = 2
    /\ Len(prompt) = 2
    /\ Has(UserContent, TopicHeader)
    /\ Has(UserContent, CommentsHeader)
    /\ Has(UserContent, ReferencesHeader)

\* C18: the Topic section is present iff the topic is non-empty, the
\* comments section (header and subsections) iff the comment list is
\* non-empty, the reference section (header and subsections) iff the
\* reference list is non-empty; the standing and the closing instruction are
\* always present.
C18_SectionsIffNonEmpty ==
    pc = "compiled" =>
        LET c == UserContent IN
        /\ Has(c, TopicHeader) <=> (~topic.none /\ topic.s # <<>>)
        /\ Has(c, CommentsHeader) <=> (user_comments # <<>>)
        /\ Has(c, "### Comment ") <=> (user_comments # <<>>)
        /\ Has(c, ReferencesHeader) <=> (docs_references # <<>>)
        /\ Has(c, "### Reference ") <=> (docs_references # <<>>)
        /\ Has(c, StandingInstruction)
        /\ Has(c, ClosingInstruction)

\* An empty topic and no comments, with references: only the reference
\* section stands between the two instructions.
C18_Witness ==
    /\ pc = "compiled"
    /\ topic = PyStr(<<>>)
    /\ user_comments = <<>>
    /\ docs_references # <<>>
    /\ ~Has(UserContent, TopicHeader)
    /\ ~Has(UserContent, CommentsHeader)
    /\ Has(UserContent, ReferencesHeader)

\* The body of the k-th reference subsection: what stands between the line
\* "### Reference k: title" and the blank line before "Source: ".
ReferenceBody(c, k) ==
    SubSeq(c, Positions(c, "### Reference ")[k] + 5, Positions(c, "Source: ")[k] - 3)

\* Every line that starts with "#" given one more "#", the first line
\* included.
demote_everywhere(s) ==
    LET ls == split_lines(s) IN
    join_lines([i \in 1..Len(ls) |->
        IF ls[i] # <<>> /\ ls[i][1] = "#" THEN <<"#">> \o ls[i] ELSE ls[i]])

\* C19: in the reference section every line of a reference's text that
\* starts with "#" has exactly one more "#" in front, also when it is the
\* first line of the text; the other lines are unchanged.
C19_HeadingsDemoted ==
    pc = "compiled" =>
        \A k \in 1..Len(docs_references) :
            ReferenceBody(UserContent, k) =
                demote_everywhere(str_strip(str_remove(docs_references[k].text, "\r")))

(***************************************************************************)
(* Further claims about the renderer (checked under SpecRender).           *)
(***************************************************************************)
\* The labels of the header row of the document's table, left to right.
AdfHeaderLabels(doc) ==
    LET ex == SelectSeq(doc.content, LAMBDA nd : nd.type = "expand")
        header_row == ex[1].content[1].content[1]
    IN [k \in 1..Len(header_row.content) |->
            header_row.content[k].content[1].content[1].text[1]]

\* C20: with at least one reference, the plain text ends with a table block:
\* the header line ||Reference||Date accessed||, whose labels are those of
\* the document's header row, then one line |[title|source]|date| per
\* deduplicated reference, in order.
C20_PlainTableBlock ==
    (pc = "rendered" /\ references # <<>>) =>
        LET ls == split_lines(comment_text)
            rows == AdfDataRows(adf)
            n == Len(rows)
            labels == AdfHeaderLabels(adf)
        IN /\ n >= 1
           /\ Len(ls) >= n + 1
           /\ ls[Len(ls) - n] = <<"||Reference||Date accessed||">>
           /\ ls[Len(ls) - n] = <<"||" \o labels[1] \o "||" \o labels[2] \o "||">>
           /\ \A i \in 1..n :
                 ls[Len(ls) - n + i] =
                     <<"|", "[", rows[i][1], "|", rows[i][2], "]", "|", rows[i][3], "|">>

\* The top-level nodes of the document that are of type ty, in order.
NodesOfType(doc, ty) == SelectSeq(doc.content, LAMBDA nd : nd.type = ty)

\* The plain text has a table header line.
HasPlainHeaderLine(text) ==
    \E i \in 1..Len(split_lines(text)) :
        LET l == split_lines(text)[i] IN
        Len(l) = 1 /\ l[1] \in {PlainHeader, "||Reference||Date accessed||"}

\* C21: the references table is present iff the deduplicated reference list
\* is non-empty, in both outputs at once.  With no reference the plain text
\* has no header line and the document no expand or table node; with
\* references the document has exactly one expand node, titled References,
\* after all paragraph nodes, wrapping exactly one table whose first row is
\* the header row.
C21_TableIffReferences ==
    pc = "rendered" =>
        LET n == Len(adf.content)
            ex == NodesOfType(adf, "expand")
        IN /\ HasPlainHeaderLine(comment_text) <=> (references # <<>>)
           /\ (ex # <<>>) <=> (references # <<>>)
           /\ NodesOfType(adf, "table") = <<>>
           /\ references # <<>> =>
                 /\ Len(ex) = 1
                 /\ adf.content[n] = ex[1]
                 /\ \A i \in 1..(n - 1) : adf.content[i].type = "paragraph"
                 /\ ex[1].attrs.title = "References"
                 /\ Len(ex[1].content) = 1
                 /\ ex[1].content[1].type = "table"
                 /\ LET first_row == ex[1].content[1].content[1] IN
                       /\ first_row.type = "tableRow"
                       /\ \A k \in 1..Len(first_row.content) :
                             first_row.content[k].type = "tableHeader"
                       /\ AdfHeaderLabels(adf) = <<"Reference", "Date accessed">>

\* Two paragraphs and a reference: the expand node is the third and last
\* node, and the plain text carries the header line.
C21_Witness ==
    /\ pc = "rendered"
    /\ references # <<>>
    /\ Len(adf.content) = 3
    /\ adf.content[3].type = "expand"
    /\ HasPlainHeaderLine(comment_text)

\* C22: the payload post_adf sends has `body` set to the structured document
\* and has `parentId` exactly when a reply target was supplied, equal to
\* that comment's id; a post without a reply target carries no parentId.
C22_ParentIdIffReplyTarget ==
    pc \in {"post returned", "post raised"} =>
        /\ Len(requests) = 1
        /\ requests[1].kind = "POST comment"
        /\ requests[1].payload.body = adf
        /\ ("parentId" \in DOMAIN requests[1].payload) <=> ~reply_comment.none
        /\ ~reply_comment.none =>
              /\ DOMAIN requests[1].payload = {"body", "parentId"}
              /\ requests[1].payload.parentId = reply_comment.id
        /\ reply_comment.none => DOMAIN requests[1].payload = {"body"}

\* A post without a reply target has been sent and accepted.
C22_Witness ==
    /\ pc = "post returned"
    /\ reply_comment.none
    /\ post_answer = HttpResponse(201)
    /\ requests # <<>>
    /\ DOMAIN requests[1].payload = {"body"}

\* C23: the classifier and the prompt compiler apply the same compaction
\* rule: for a text longer than the limit L both return the first L - 220
\* characters, the marker and the final 200 characters, so the two give
\* equal outputs for equal text and limit.
C23_SameCompactionRule ==
    pc = "compacted" =>
        LET t == str_strip(str_remove(compact_text, "\r")) IN
        (Len(t) > compact_limit /\ compact_limit >= 220) =>
            /\ compact_out = SubSeq(t, 1, compact_limit - 220)
                             \o TruncationMarker
                             \o SubSeq(t, Len(t) - 199, Len(t))
            /\ _compact(compact_text, compact_limit)
                  = compile_messages_compact(compact_text, compact_limit)

(***************************************************************************)
(* The classifier's fallback on a response with text around the object.    *)
(***************************************************************************)
\* Opening minus closing braces among s[i..j].
BraceDepth(s, i, j) ==
    Cardinality({k \in i..j : s[k].k = "{"})
    - Cardinality({k \in i..j : s[k].k = "}"})

\* The first balanced {...} block of s: from the leftmost "{" to the brace
\* that closes it.
FirstBalancedBlock(s) ==
    LET lbs == {i \in 1..Len(s) : s[i].k = "{"} IN
    IF lbs = {} THEN [found |-> FALSE, group |-> <<>>]
    ELSE LET i == Min(lbs)
             closes == {j \in i..Len(s) : BraceDepth(s, i, j) = 0}
         IN IF closes = {} THEN [found |-> FALSE, group |-> <<>>]
            ELSE [found |-> TRUE, group |-> SubSeq(s, i, Min(closes))]

\* The response is not JSON as a whole but its first balanced block is.
ObjectInsideText(s) ==
    /\ ~json_loads(strip(s)).ok
    /\ FirstBalancedBlock(strip(s)).found
    /\ json_loads(FirstBalancedBlock(strip(s)).group).ok

\* C24: when the response is not valid JSON as a whole but holds a valid
\* JSON object with text around it, the scores are those of the first
\* balanced {...} block, also when the text after the block holds further
\* braces.
C24_FirstBalancedBlockUsed ==
    (pc = "filtered" /\ ObjectInsideText(content)) =>
        LET block == json_loads(FirstBalancedBlock(strip(content)).group) IN
        /\ ~raised
        /\ scores = ParsedScores(RawOf(block.val))
        /\ selected = SelectSeq(comments,
                                LAMBDA c : c.id \in IdSet(scores, relevance_score))

(***************************************************************************)
(* The numbered subsections of the compiled prompt.                        *)
(***************************************************************************)
\* The pieces of c from place p on, as many as e has.
PiecesAt(c, p, e) == SubSeq(c, p, p + Len(e) - 1)

\* A text with its "#" characters left out.
WithoutHashes(s) == SelectSeq(s, LAMBDA x : x # "#")

\* C25: the compiled prompt has as many comment subsections as input
\* comments and as many reference subsections as references; the k-th
\* subsection is numbered k and carries the k-th item in input order, the
\* comment author trimmed, the reference's source after the reference body.
C25_SubsectionsNumberedInOrder ==
    pc = "compiled" =>
        LET c  == UserContent
            cp == Positions(c, "### Comment ")
            rp == Positions(c, "### Reference ")
            sp == Positions(c, "Source: ")
        IN /\ Len(cp) = Len(user_comments)
           /\ Len(rp) = Len(docs_references)
           /\ Len(sp) = Len(docs_references)
           /\ \A k \in 1..Len(cp) :
                 LET uc == user_comments[k]
                     expected == <<"### Comment ", ToString(k), EmDash>>
                                 \o str_strip(uc.author) \o <<"\n">>
                                 \o str_strip(str_remove(uc.content, "\r"))
                 IN /\ PiecesAt(c, cp[k], expected) = expected
                    /\ PiecesAt(c, cp[k] + Len(expected), <<"\n", "\n">>)
                          = <<"\n", "\n">>
                    /\ k < Len(cp) => cp[k + 1] = cp[k] + Len(expected) + 2
           /\ \A k \in 1..Len(rp) :
                 LET ref == docs_references[k]
                     heading == <<"### Reference ", ToString(k), ": ", ref.title, "\n">>
                 IN /\ PiecesAt(c, rp[k], heading) = heading
                    /\ rp[k] < sp[k]
                    /\ k < Len(rp) => sp[k] < rp[k + 1]
                    /\ WithoutHashes(ReferenceBody(c, k))
                          = WithoutHashes(str_strip(str_remove(ref.text, "\r")))
                    /\ PiecesAt(c, sp[k] - 2, <<"\n", "\n", "Source: ", ref.source>>)
                          = <<"\n", "\n", "Source: ", ref.source>>

\* Two comments, the first with a padded author, and two references.
C25_Witness ==
    /\ pc = "compiled"
    /\ Len(user_comments) = 2
    /\ Len(docs_references) = 2
    /\ user_comments[1].author # str_strip(user_comments[1].author)
    /\ docs_references[1] # docs_references[2]
    /\ Len(Positions(UserContent, "### Comment ")) = 2
    /\ Len(Positions(UserContent, "### Reference ")) = 2

\* C26: the relevance threshold is constrained to [0, 1]: a call with a
\* threshold below 0 or above 1 is rejected and selects nothing, the
\* threshold is never used in the comparison.
C26_ThresholdOutOfRangeRejected ==
    (pc = "filtered" /\ (relevance_score < ScoreMin \/ relevance_score > ScoreMax)) =>
        /\ raised
        /\ selected = <<>>

\* The limits the program calls the compaction with.
UsedLimits == {500, 1200, 1500, 1800}

\* C27: compaction is idempotent for the limits in use (500, 1200, 1500,
\* 1800): compacting an already compacted text with the same limit returns
\* it unchanged.
C27_CompactionIdempotent ==
    (pc = "recompacted" /\ compact_limit \in UsedLimits) =>
        compact_out = compact_text

\* A text that was cut at limit 1500 by the prompt compiler, compacted again.
C27_Witness ==
    /\ pc = "recompacted"
    /\ compact_which = "builder"
    /\ compact_limit = 1500
    /\ \E i \in 1..Len(compact_text) : compact_text[i] = Ellipsis
    /\ Len(compact_out) = 1483

\* A step that is a call of compile_messages, returning or raising: the
\* only steps that end in one of these positions.
IsCompileCall ==
    /\ pc \in BuilderPositions
    /\ pc' \in {"compiled", "compiled again", "compile failed", "recompile failed"}

\* C28: compile_messages does not change the builder: after any number of
\* calls, returning or raising, in any order and with changes of the system
\* prompt between them, every call leaves the system prompt, the topic, the
\* comments and the references as they were; a call that follows a returned
\* call on the same builder, with or without raising calls between them,
\* returns the same messages; and the only effect outside the builder is
\* the prompt.json file.
C28_CompileLeavesBuilderUnchanged ==
    [][IsCompileCall =>
          /\ system_prompt' = system_prompt
          /\ topic' = topic
          /\ user_comments' = user_comments
          /\ docs_references' = docs_references
          /\ pc' = "compiled again" => prompt' = prompt
          /\ pc' \in {"compiled", "compiled again"} =>
                /\ Len(prompt') = 2
                /\ prompt_file' = PromptFile(prompt')
          /\ pc' \in {"compile failed", "recompile failed"} => prompt' = prompt
          /\ UNCHANGED <<filterVars, renderVars, retrieveVars, batchVars,
                         mainVars, compactVars, postVars, requests>>]_vars

\* A builder with no system prompt, a topic, comments and references has
\* returned its messages for at least the second time.
C28_Witness ==
    /\ pc = "compiled again"
    /\ system_prompt = NoneStr
    /\ user_comments # <<>>
    /\ docs_references # <<>>
    /\ StrTruthy(topic)
    /\ Len(prompt) = 2
    /\ prompt_file = PromptFile(prompt)

(***************************************************************************)
(* Specification of one get_target_comment call.                           *)
(***************************************************************************)
MaxTargetComments == 3  \* comments handed to get_target_comment

TargetBodies ==
    { <<"H", "2", ".", " ", "D", "o", "c">>,                  \* heading, capitals
      <<"\n", " ", "h", "1", ".", "d", "o", "c", "\r", "\n", "x">>, \* after blank lines
      <<"x", "\n", "h", "2", ".", " ", "d", "o", "c">>,       \* on the second line only
      <<>>,                                                   \* empty body
      <<"h", "2", ".", " ", "d", "o", "c", "s">>,             \* a longer word
      <<"d", "o", "c", " ", "o", "k">> }                      \* no heading

\* Comment lists; the ids follow the positions, as the tracker numbers them.
TargetLists ==
    { [i \in 1..Len(bs) |-> Comment(ToString(9 + i), bs[i])] :
        bs \in SeqsUpTo(TargetBodies, MaxTargetComments) }

TargetPatterns ==
    { Pattern(TRUE, {<<"d", "o", "c">>, <<"o", "k">>}, TRUE),
      Pattern(FALSE, {<<"d", "o", "c">>}, FALSE),
      Pattern(TRUE, {<<"D", "o", "c">>}, FALSE) }

InitTarget ==
    /\ pc = "target"
    /\ RenderIdle
    /\ RetrieveIdle
    /\ BatchIdle
    /\ MainIdle
    /\ CompactIdle
    /\ PromptIdle
    /\ requests = <<>>
    /\ content = <<>>
    /\ comments \in TargetLists
    /\ relevance_score = DefaultRelevance
    /\ selected = <<>>
    /\ scores = EmptyMap
    /\ raised = FALSE
    /\ target_pattern \in TargetPatterns
    /\ reply_comment = NoComment
    /\ post_answer = HttpResponse(201)
    /\ post_log = <<>>
    /\ post_raised = FALSE

GetTargetComment ==
    /\ pc = "target"
    /\ LET r == get_target_comment(comments, target_pattern) IN
        /\ reply_comment' = r.found
        /\ post_raised' = r.raised
        /\ pc' = IF r.raised THEN "target raised" ELSE "target returned"
    /\ UNCHANGED <<target_pattern, post_answer, post_log>>
    /\ UNCHANGED <<filterVars, renderVars, retrieveVars, batchVars, mainVars,
                   compactVars, promptVars, requests>>

NextTarget == GetTargetComment

SpecTarget == InitTarget /\ [][NextTarget]_vars

\* The places of the comments whose first line matches the pattern.
TargetHits ==
    {i \in 1..Len(comments) :
        pattern_match(target_pattern, first_line(comments[i].body))}

\* C29: get_target_comment returns the first comment, in list order, whose
\* first line matches the pattern, and None, without raising, when no
\* comment matches or the list is empty; it never returns a later match
\* when an earlier comment matches.
C29_FirstMatchReturned ==
    pc \notin {"target"} /\ target_pattern # NoPattern =>
        /\ pc = "target returned"
        /\ ~post_raised
        /\ reply_comment.none <=> TargetHits = {}
        /\ \A i \in TargetHits :
              /\ \E j \in TargetHits : comments[j].id = reply_comment.id
              /\ (\A j \in TargetHits : i <= j) => reply_comment.id = comments[i].id
              /\ (\E j \in TargetHits : j < i) => reply_comment.id # comments[i].id

\* Three comments of which the second and the third match: the second is
\* returned.
C29_Witness ==
    /\ pc = "target returned"
    /\ Len(comments) = 3
    /\ TargetHits = {2, 3}
    /\ reply_comment = ReplyTo(comments[2].id)

(***************************************************************************)
(* main(): the comment the run is about.                                   *)
(***************************************************************************)
\* The places of the comments that mention 'online help' or 'doc & test'
\* within their first two lines.
MentioningComments ==
    {i \in 1..Len(comments) : MentionsOnlineHelp(comments[i].body)}

\* The stages main() has completed.
StagesDone == {done_stages[i] : i \in 1..Len(done_stages)}

\* The issue was fetched and the search for the comment is over.
SearchOver == "fetch" \in StagesDone /\ pc # "find"

\* Stages that request an embedding, query the index, write an audit file
\* or post.
OutwardStages ==
    {"embed", "query", "write_messages", "write_result", "write_comment",
     "write_adf", "post"}

\* C30: in main(), when no comment mentions 'online help' or 'doc & test'
\* within its first two lines, the run ends with exit status 1 before any
\* embedding request, index query, audit file write or post; when such a
\* comment exists, the first one in comment order is the retrieval query.
C30_NoCommentExitsBeforeRequests ==
    SearchOver =>
        /\ MentioningComments = {} =>
              /\ pc = "exit1"
              /\ StagesDone \cap OutwardStages = {}
              /\ requests = <<>>
              /\ matches = <<>>
              /\ post_calls = <<>>
        /\ MentioningComments # {} =>
              /\ pc # "exit1"
              /\ onlinehelp_comment = Min(MentioningComments)
              /\ "embed" \in StagesDone =>
                    /\ Len(requests) = 1
                    /\ requests[1].kind = "embedding"
                    /\ requests[1].payload
                          = comments[Min(MentioningComments)].body
              /\ \A i \in 1..Len(requests) :
                    requests[i].payload = comments[Min(MentioningComments)].body

\* Two comments, neither mentioning it in the first two lines: exit status 1.
C30_Witness ==
    /\ pc = "exit1"
    /\ Len(comments) = 2
    /\ MentioningComments = {}
    /\ \E i \in 1..2 : comments[i].body = <<"thanks", "more", "online help">>
    /\ done_stages = <<"fetch">>
====
